---- MODULE Spec2Model ----
(***************************************************************************)
(* Personal finance tracker: stored snapshots / metrics / external ledger, *)
(* the growth endpoint (GET /api/analytics/growth) and the charts page's   *)
(* multi-source growth merger.                                             *)
(*                                                                         *)
(* Money is counted in hundredths (integers).  A timestamp is an integer   *)
(* number of ticks; TicksPerDay ticks make one UTC calendar day, so the    *)
(* ISO date part of a timestamp t is the day number t \div TicksPerDay.    *)
(* One signed-in client issues one request at a time: a request's response *)
(* is held in `response` / `page` until the client closes it.              *)
(***************************************************************************)
EXTENDS Integers, Sequences, FiniteSets, TLC

\* ---------------------------------------------------------------- bounds
\* ticks per calendar day, last day a snapshot may be dated, last tick of the
\* clock, rows ever inserted per table and in total
TicksPerDay == 2
MaxDay == 2
MaxTime == 3
MaxSnapshots == 3
MaxAccounts == 2
MaxEntries == 3
MaxRows == 4

\* ------------------------------------------------------------- constants
Users == {"u1"}
Sources == {"raymond_james", "wealthsimple"}
DEBT_TYPES_WithoutLoan == {"Mortgage", "Credit Card"}
DEBT_TYPES == {"Mortgage", "Loan", "Credit Card"}
NULL == "<null>"
AccountTypes == {NULL, "Savings", "Mortgage", "Loan", "Credit Card"}
EntryValues == {100, -50}
InitialValues == {100}
\* note?.trim() || null
EntryNotes == { <<>> }

\* JS undefined / null versus a present value
None == <<>>
Some(v) == <<v>>
IsSome(o) == Len(o) > 0
Val(o) == o[1]
\* o ?? d
Coalesce(o, d) == IF IsSome(o) THEN Val(o) ELSE d
\* (o || 0) for an optional number
OrZero(o) == IF IsSome(o) THEN Val(o) ELSE 0

\* A row of an uploaded CSV: a function from column label to text.  Columns
\* that no modelled computation reads are left out.
RJRow(clientId, accountNumber, nickname, marketValue, bookValue, gainLoss) ==
  [ c \in {"Client Id", "Account Number", "Client Name", "Account Nickname",
           "Symbol", "Holding", "Quantity", "Price", "Book Value",
           "Market Value", "G/L"} |->
      CASE c = "Client Id" -> clientId
        [] c = "Account Number" -> accountNumber
        [] c = "Client Name" -> <<"Client">>
        [] c = "Account Nickname" -> nickname
        [] c = "Symbol" -> <<"XYZ">>
        [] c = "Holding" -> <<"Fund">>
        [] c = "Quantity" -> <<"1", ".", "5">>
        [] c = "Price" -> <<"4", ".", "2", "5">>
        [] c = "Book Value" -> bookValue
        [] c = "Market Value" -> marketValue
        [] c = "G/L" -> gainLoss ]

WSRow(accountNumber, accountName, accountType, marketValue, bookValue, gainLoss) ==
  [ c \in {"Account Number", "Account Name", "Account Type", "Symbol", "Name",
           "Quantity", "Market Price", "Book Value (CAD)", "Market Value",
           "Market Unrealized Returns"} |->
      CASE c = "Account Number" -> accountNumber
        [] c = "Account Name" -> accountName
        [] c = "Account Type" -> accountType
        [] c = "Symbol" -> <<"XYZ">>
        [] c = "Name" -> <<"Fund">>
        [] c = "Quantity" -> <<"1", ".", "5">>
        [] c = "Market Price" -> <<"4", ".", "2", "5">>
        [] c = "Book Value (CAD)" -> bookValue
        [] c = "Market Value" -> marketValue
        [] c = "Market Unrealized Returns" -> gainLoss ]

\* The uploaded files, in the format of either source: file 1 has two rows
\* (7.00 / 6.00 / 1.00 under label TFSA; 5.00 with the rest blank and no
\* label), file 2 one row with a label and no amounts.
Files ==
  [ source \in {"raymond_james", "wealthsimple"} |->
      IF source = "raymond_james"
      THEN << << RJRow(<<"C1">>, <<"A1">>, <<"TFSA">>, <<"$", "7", ".", "0", "0">>,
                       <<"6">>, <<"1", ".", "0">>),
                 RJRow(<<"C1">>, <<"A2">>, <<>>, <<"5">>, <<>>, <<"-">>) >>,
              << RJRow(<<"C2">>, <<"A3">>, <<"RRSP">>, <<>>, <<>>, <<>>) >> >>
      ELSE << << WSRow(<<"A1">>, <<"TFSA">>, <<>>, <<"$", "7", ".", "0", "0">>,
                       <<"6">>, <<"1", ".", "0">>),
                 WSRow(<<"A2">>, <<>>, <<>>, <<"5">>, <<>>, <<"-">>) >>,
              << WSRow(<<"A3">>, <<"RRSP">>, <<>>, <<>>, <<>>, <<>>) >> >> ]

Days == 0 .. MaxDay

\* new Date("YYYY-MM-DD"): midnight UTC of that day
ParseDateString(d) == d * TicksPerDay
\* toISOString().split('T')[0]: the UTC calendar date of a timestamp
ISODate(t) == t \div TicksPerDay

VARIABLES snapshots, holdings, portfolioMetrics, externalAccounts,
          externalAccountEntries, nextSnapshotId, nextAccountId, nextEntryId,
          now, response, page, result

vars == <<snapshots, holdings, portfolioMetrics, externalAccounts,
          externalAccountEntries, nextSnapshotId, nextAccountId, nextEntryId,
          now, response, page, result>>

dbVars == <<snapshots, holdings, portfolioMetrics, externalAccounts,
            externalAccountEntries, nextSnapshotId, nextAccountId,
            nextEntryId, now>>

NoResponse == [status |-> 0, user |-> None, source |-> None, dataPoints |-> <<>>]
NoPage == [loaded |-> FALSE, user |-> None, error |-> None,
           sourceAnalytics |-> <<>>, externalAccounts |-> {}]
\* `result` holds the outcome of any other request, or the inputs and the
\* outputs of a function applied on its own
NoResult == [op |-> "none"]

\* the client has no request outstanding
Idle == response.status = 0 /\ ~page.loaded /\ result = NoResult

\* rows inserted so far, over all tables
RowsInserted == (nextSnapshotId - 1) + (nextAccountId - 1) + (nextEntryId - 1)

\* -------------------------------------------------------------- helpers
\* sum of f[x] over x in S, f a function on S
RECURSIVE SumFun(_, _)
SumFun(f, S) ==
  IF S = {} THEN 0
  ELSE LET x == CHOOSE y \in S : TRUE IN f[x] + SumFun(f, S \ {x})

Range(s) == { s[i] : i \in 1 .. Len(s) }

\* sum of a sequence of integers
RECURSIVE SumSeq(_)
SumSeq(s) == IF s = <<>> THEN 0 ELSE Head(s) + SumSeq(Tail(s))

Abs(n) == IF n < 0 THEN -n ELSE n

\* all orderings of the finite set S that respect the (weak) order le
Orderings(S, le(_, _)) ==
  LET n == Cardinality(S) IN
  { s \in [1 .. n -> S] :
      /\ \A i, j \in 1 .. n : i # j => s[i] # s[j]
      /\ \A i \in 1 .. n - 1 : le(s[i], s[i + 1]) }

\* Array.prototype.sort (stable): the indices of the integer sequence keys
\* in ascending order of key, equal keys keeping their relative order
RECURSIVE SortIdx(_, _)
SortIdx(keys, todo) ==
  IF todo = {} THEN <<>>
  ELSE LET m == CHOOSE i \in todo :
                  \A j \in todo : keys[i] < keys[j] \/ (keys[i] = keys[j] /\ i <= j)
       IN <<m>> \o SortIdx(keys, todo \ {m})

\* s sorted ascending by key(s[i]), stable
SortByAsc(s, key(_)) ==
  LET idx == SortIdx([i \in 1 .. Len(s) |-> key(s[i])], 1 .. Len(s))
  IN [k \in 1 .. Len(s) |-> s[idx[k]]]

\* s sorted descending by key(s[i]), stable
SortByDesc(s, key(_)) ==
  LET idx == SortIdx([i \in 1 .. Len(s) |-> 0 - key(s[i])], 1 .. Len(s))
  IN [k \in 1 .. Len(s) |-> s[idx[k]]]


\* ------------------------------------------------ text and numbers
\* A text is a sequence of pieces (characters, or whole words where only
\* emptiness and concatenation matter); "" is the empty sequence.
Digits == <<"0", "1", "2", "3", "4", "5", "6", "7", "8", "9">>
IsDigit(c) == \E i \in 1 .. 10 : Digits[i] = c
DigitValue(c) == (CHOOSE i \in 1 .. 10 : Digits[i] = c) - 1
Whitespace == {" "}

RECURSIVE Pow10(_)
Pow10(n) == IF n = 0 THEN 1 ELSE 10 * Pow10(n - 1)

\* value.trim()
RECURSIVE TrimStart(_)
TrimStart(s) ==
  IF s # <<>> /\ Head(s) \in Whitespace THEN TrimStart(Tail(s)) ELSE s
RECURSIVE TrimEnd(_)
TrimEnd(s) ==
  IF s # <<>> /\ s[Len(s)] \in Whitespace
  THEN TrimEnd(SubSeq(s, 1, Len(s) - 1)) ELSE s
Trim(s) == TrimEnd(TrimStart(s))

\* value.replace(/[$,\s]/g, "").replace(/[()]/g, "-")
Cleaned(value) ==
  LET kept == SelectSeq(value, LAMBDA c : c \notin {"$", ","} \cup Whitespace)
  IN [ i \in 1 .. Len(kept) |-> IF kept[i] \in {"(", ")"} THEN "-" ELSE kept[i] ]

\* the number of consecutive digits of s from position `from` on
RECURSIVE CountDigits(_, _)
CountDigits(s, from) ==
  IF from <= Len(s) /\ IsDigit(s[from]) THEN 1 + CountDigits(s, from + 1) ELSE 0

RECURSIVE DigitsToInt(_)
DigitsToInt(s) ==
  IF s = <<>> THEN 0
  ELSE DigitsToInt(SubSeq(s, 1, Len(s) - 1)) * 10 + DigitValue(s[Len(s)])

\* parseFloat: the longest numeric prefix (sign, digits, "." digits) after
\* leading whitespace, as mantissa m and scale k (the number m / 10^k);
\* None is NaN.  The texts of the model hold no exponent and no "Infinity".
parseFloat(text) ==
  LET s == TrimStart(text)
      signed == s # <<>> /\ s[1] \in {"-", "+"}
      start == IF signed THEN 2 ELSE 1
      intLen == CountDigits(s, start)
      dot == start + intLen
      fracLen == IF dot <= Len(s) /\ s[dot] = "." THEN CountDigits(s, dot + 1) ELSE 0
      digits == SubSeq(s, start, start + intLen - 1) \o
                SubSeq(s, dot + 1, dot + fracLen)
      magnitude == DigitsToInt(digits)
  IN IF intLen + fracLen = 0 THEN None
     ELSE Some([ m |-> IF signed /\ s[1] = "-" THEN 0 - magnitude ELSE magnitude,
                 k |-> fracLen ])

\* Math.ceil(num * 10^decimals + 0.5), a rounding that is no projection
RoundCeilHalf(num, decimals) ==
  IF num.k <= decimals THEN num.m * Pow10(decimals - num.k) + 1
  ELSE 0 - ((0 - (2 * num.m + Pow10(num.k - decimals)))
            \div (2 * Pow10(num.k - decimals)))
\* Math.round(num * 10^decimals): the nearest integer, a half going up,
\* i.e. the number of 10^-decimals units of the result
RoundHalfUp(num, decimals) ==
  IF num.k <= decimals THEN num.m * Pow10(decimals - num.k)
  ELSE (2 * num.m + Pow10(num.k - decimals)) \div (2 * Pow10(num.k - decimals))

\* parseCurrency(value, decimals): null, or the number rounded to `decimals`
\* fractional digits, given as its count of 10^-decimals units
parseCurrency(value, decimals) ==
  IF value = None \/ Val(value) = <<>> \/ Trim(Val(value)) = <<>>
     \/ Val(value) = <<"-">>
  THEN None
  ELSE LET num == parseFloat(Cleaned(Val(value)))
       IN IF num = None THEN None ELSE Some(RoundHalfUp(Val(num), decimals))

RECURSIVE IntToDigits(_)
IntToDigits(n) ==
  IF n < 10 THEN <<Digits[n + 1]>>
  ELSE IntToDigits(n \div 10) \o <<Digits[(n % 10) + 1]>>

RECURSIVE FixedDigits(_, _)
FixedDigits(n, width) ==
  IF width = 0 THEN <<>>
  ELSE FixedDigits(n \div 10, width - 1) \o <<Digits[(n % 10) + 1]>>

RECURSIVE StripTrailingZeros(_)
StripTrailingZeros(s) ==
  IF s # <<>> /\ s[Len(s)] = "0"
  THEN StripTrailingZeros(SubSeq(s, 1, Len(s) - 1)) ELSE s

\* Number.prototype.toString of the number units / 10^decimals: sign,
\* integer part, and the fraction without trailing zeros when there is one
NumberToString(units, decimals) ==
  LET a == IF units < 0 THEN 0 - units ELSE units
      frac == StripTrailingZeros(FixedDigits(a % Pow10(decimals), decimals))
  IN (IF units < 0 THEN <<"-">> ELSE <<>>) \o IntToDigits(a \div Pow10(decimals))
     \o (IF frac = <<>> THEN <<>> ELSE <<".">> \o frac)

\* the nearest integer to a / b (b > 0), a half going away from zero
DivRoundHalfAway(a, b) ==
  IF a >= 0 THEN (2 * a + b) \div (2 * b) ELSE 0 - ((2 * (0 - a) + b) \div (2 * b))

\* a decimal(precision, scale) column given a decimal text: the value in
\* 10^-scale units, rounded half away from zero; None when the text is no
\* number or the value needs more than `precision` digits (the insert fails)
TooLong(n, precision, scale) == n > 0 /\ Len(IntToDigits(n)) > precision - scale
UnitsIfFit(units, precision, scale) ==
  IF TooLong(Abs(units) \div Pow10(scale), precision, scale)
  THEN None ELSE Some(units)
DecimalOfNumber(num, precision, scale) ==
  IF TooLong(Abs(num.m) \div Pow10(num.k), precision, scale) THEN None
  ELSE UnitsIfFit(IF num.k <= scale THEN num.m * Pow10(scale - num.k)
                  ELSE DivRoundHalfAway(num.m, Pow10(num.k - scale)),
                  precision, scale)
DecimalOfParsed(num, precision, scale) ==
  IF num = None THEN None ELSE DecimalOfNumber(Val(num), precision, scale)
DecimalColumn(text, precision, scale) ==
  DecimalOfParsed(parseFloat(text), precision, scale)

\* ------------------------------------------------------------------ Init
Init ==
  /\ snapshots = {}
  /\ holdings = {}
  /\ portfolioMetrics = {}
  /\ externalAccounts = {}
  /\ externalAccountEntries = {}
  /\ nextSnapshotId = 1
  /\ nextAccountId = 1
  /\ nextEntryId = 1
  /\ now = TicksPerDay - 1
  /\ response = NoResponse
  /\ page = NoPage
  /\ result = NoResult

\* ------------------------------------------------- POST /api/import
\* row[col]: undefined when the file has no such column
Col(row, c) == IF c \in DOMAIN row THEN Some(row[c]) ELSE None
\* row[col] || null
TextOrNull(row, c) ==
  IF Col(row, c) = None \/ Val(Col(row, c)) = <<>> THEN None ELSE Col(row, c)
\* row[col] || ""
TextOrEmpty(row, c) == IF Col(row, c) = None THEN <<>> ELSE Val(Col(row, c))

\* a Raymond James row as a holding
transformCsvRowKeepingClientId(row) ==
  [ clientName |-> TextOrNull(row, "Client Id"),
    accountNickname |-> TextOrNull(row, "Account Nickname"),
    symbol |-> TextOrNull(row, "Symbol"),
    holding |-> TextOrNull(row, "Holding"),
    quantity |-> parseCurrency(Col(row, "Quantity"), 6),
    price |-> parseCurrency(Col(row, "Price"), 4),
    bookValue |-> parseCurrency(Col(row, "Book Value"), 2),
    marketValue |-> parseCurrency(Col(row, "Market Value"), 2),
    gainLoss |-> parseCurrency(Col(row, "G/L"), 2) ]
transformCsvRow(row) ==
  [ clientName |-> TextOrNull(row, "Client Name"),
    accountNickname |-> TextOrNull(row, "Account Nickname"),
    symbol |-> TextOrNull(row, "Symbol"),
    holding |-> TextOrNull(row, "Holding"),
    quantity |-> parseCurrency(Col(row, "Quantity"), 6),
    price |-> parseCurrency(Col(row, "Price"), 4),
    bookValue |-> parseCurrency(Col(row, "Book Value"), 2),
    marketValue |-> parseCurrency(Col(row, "Market Value"), 2),
    gainLoss |-> parseCurrency(Col(row, "G/L"), 2) ]

\* a Wealthsimple row as a holding
transformWealthsimpleCsvRow(row) ==
  LET accountName == TextOrEmpty(row, "Account Name")
      accountType == TextOrEmpty(row, "Account Type")
      accountNickname == IF accountType # <<>>
                         THEN accountName \o <<" - ">> \o accountType
                         ELSE accountName
  IN [ clientName |-> None,
       accountNickname |-> IF accountNickname = <<>> THEN None
                           ELSE Some(accountNickname),
       symbol |-> TextOrNull(row, "Symbol"),
       holding |-> TextOrNull(row, "Name"),
       quantity |-> parseCurrency(Col(row, "Quantity"), 6),
       price |-> parseCurrency(Col(row, "Market Price"), 4),
       bookValue |-> parseCurrency(Col(row, "Book Value (CAD)"), 2),
       marketValue |-> parseCurrency(Col(row, "Market Value"), 2),
       gainLoss |-> parseCurrency(Col(row, "Market Unrealized Returns"), 2) ]

requiredColumns(source) ==
  IF source = "raymond_james"
  THEN {"Client Name", "Account Nickname", "Symbol", "Holding", "Market Value"}
  ELSE {"Account Name", "Symbol", "Name", "Market Value"}

\* accountName.toLowerCase().startsWith("as of")
ToLowerCase(s) ==
  [ i \in 1 .. Len(s) |->
      CASE s[i] = "A" -> "a" [] s[i] = "S" -> "s" [] s[i] = "O" -> "o"
        [] s[i] = "F" -> "f" [] OTHER -> s[i] ]
StartsWithAsOf(accountName) ==
  /\ Len(accountName) >= 5
  /\ SubSeq(ToLowerCase(accountName), 1, 5) = <<"a", "s", " ", "o", "f">>

\* the Wealthsimple footer filter
DataRows(source, rows) ==
  IF source = "wealthsimple"
  THEN SelectSeq(rows, LAMBDA row :
         /\ ~StartsWithAsOf(TextOrEmpty(row, "Account Name"))
         /\ ~(TextOrNull(row, "Symbol") = None /\ TextOrNull(row, "Name") = None))
  ELSE rows

\* value?.toString() || null into a decimal(precision, scale) column:
\* ok is FALSE when the column rejects the value
StoredColumn(column) == [ ok |-> column # None, value |-> column ]
Stored(value, decimals, precision, scale) ==
  IF value = None THEN [ ok |-> TRUE, value |-> None ]
  ELSE StoredColumn(DecimalColumn(NumberToString(Val(value), decimals),
                                  precision, scale))

\* one element of holdingsData (snapshotId apart) and whether its columns
\* accept it
HoldingsRowOf(i, transformed, quantity, price, bookValue, marketValue, gainLoss) ==
     [ ok |-> quantity.ok /\ price.ok /\ bookValue.ok /\ marketValue.ok /\ gainLoss.ok,
       \* client_id and account_number are columns the insert never names
       holding |-> [ row |-> i,
                     clientId |-> None,
                     accountNumber |-> None,
                     clientName |-> transformed.clientName,
                     accountNickname |-> transformed.accountNickname,
                     symbol |-> transformed.symbol,
                     holding |-> transformed.holding,
                     quantity |-> quantity.value,
                     price |-> price.value,
                     bookValue |-> bookValue.value,
                     marketValue |-> marketValue.value,
                     gainLoss |-> gainLoss.value ] ]
HoldingsRow(i, transformed) ==
  HoldingsRowOf(i, transformed,
                Stored(transformed.quantity, 6, 18, 6),
                Stored(transformed.price, 4, 18, 4),
                Stored(transformed.bookValue, 2, 18, 2),
                Stored(transformed.marketValue, 2, 18, 2),
                Stored(transformed.gainLoss, 2, 18, 2))

batchSize == 100

\* the holdings the batch loop inserts before a batch is rejected, and
\* whether every batch went in
InsertBatches(holdingsData) ==
  LET batchOf(i) == (i - 1) \div batchSize
      failing == { batchOf(i) : i \in { j \in 1 .. Len(holdingsData) :
                                          ~holdingsData[j].ok } }
      done(i) == \A b \in failing : batchOf(i) < b
  IN [ ok |-> failing = {},
       inserted |-> { holdingsData[i].holding :
                        i \in { j \in 1 .. Len(holdingsData) : done(j) } } ]

\* the handler up to its first insert: the status of an early return (0 when
\* there is none), the number of rows kept and holdingsData
\* recordCount: rows.length, after the footer filter
RecordCountBeforeFilter(parsedRows, rows) == Len(parsedRows)
RecordCount(parsedRows, rows) == Len(rows)

Prepared(source, parsedRows) ==
  LET rows == DataRows(source, parsedRows)
  IN [ status |-> IF Len(parsedRows) = 0 THEN 400
                  ELSE IF ~(requiredColumns(source) \subseteq DOMAIN parsedRows[1])
                  THEN 400 ELSE 0,
       recordCount |-> RecordCount(parsedRows, rows),
       holdingsData |->
         [ i \in 1 .. Len(rows) |->
             HoldingsRow(i, IF source = "raymond_james"
                            THEN transformCsvRow(rows[i])
                            ELSE transformWealthsimpleCsvRow(rows[i])) ] ]

PreparedFiles ==
  [ source \in DOMAIN Files |->
      [ file \in 1 .. Len(Files[source]) |-> Prepared(source, Files[source][file]) ] ]

\* metrics query: COALESCE(SUM(col), 0), COUNT(*), COUNT(DISTINCT label)
MetricsQuery(hs, snapshotId) ==
  LET rows == { h \in hs : h.snapshotId = snapshotId }
      mv(h) == OrZero(h.marketValue)
      bv(h) == OrZero(h.bookValue)
      gl(h) == OrZero(h.gainLoss)
  IN [ snapshotId |-> snapshotId,
       totalMarketValue |-> SumFun([h \in rows |-> mv(h)], rows),
       totalBookValue |-> SumFun([h \in rows |-> bv(h)], rows),
       totalGainLoss |-> SumFun([h \in rows |-> gl(h)], rows),
       holdingsCount |-> Cardinality(rows),
       accountsCount |-> Cardinality({ Val(h.accountNickname) :
                              h \in { r \in rows : IsSome(r.accountNickname) } }) ]

\* totalBookValue > 0
BookValueUnguarded(totalBookValue) == TRUE
BookValuePositive(totalBookValue) == totalBookValue > 0

\* ((totalMarketValue - totalBookValue) / totalBookValue) * 100, or 0: the
\* number num / den; den = 0 makes it NaN or an infinity
totalGainLossPercent(metrics) ==
  IF BookValuePositive(metrics.totalBookValue)
  THEN [ num |-> (metrics.totalMarketValue - metrics.totalBookValue) * 100,
         den |-> metrics.totalBookValue ]
  ELSE [ num |-> 0, den |-> 1 ]

\* number.toString() into the decimal(10, 4) column of the percentage:
\* sign, whole part and ten-thousandths, rounded half away from zero; NaN is
\* stored as NaN; None when the column rejects the value (an infinity, or
\* more than six digits before the point)
PercentColumn(number) ==
  IF number.den = 0
  THEN IF number.num = 0
       THEN Some([ nan |-> TRUE, neg |-> FALSE, whole |-> 0, frac |-> 0 ])
       ELSE None
  ELSE LET a == IF number.den < 0 THEN 0 - number.num ELSE number.num
           b == IF number.den < 0 THEN 0 - number.den ELSE number.den
           mag == IF a < 0 THEN 0 - a ELSE a
           q == mag \div b
           f == DivRoundHalfAway((mag % b) * Pow10(4), b)
           whole == IF f = Pow10(4) THEN q + 1 ELSE q
           frac == IF f = Pow10(4) THEN 0 ELSE f
       IN IF whole >= Pow10(6) THEN None
          ELSE Some([ nan |-> FALSE, neg |-> a < 0 /\ whole + frac > 0,
                      whole |-> whole, frac |-> frac ])

\* the handler from its first insert on: what it leaves in the three
\* tables and the status of its response.  Nothing is rolled back when an
\* insert is rejected.
ImportOutcome(user, source, snapshotDateStr, prepared) ==
  LET snapshotDate == IF IsSome(snapshotDateStr)
                      THEN ParseDateString(Val(snapshotDateStr))
                      ELSE now
      snapshot == [ id |-> nextSnapshotId, userId |-> user, source |-> source,
                    snapshotDate |-> snapshotDate,
                    recordCount |-> prepared.recordCount ]
      batches == InsertBatches(prepared.holdingsData)
      withHoldings ==
        holdings \cup { [ snapshotId |-> snapshot.id ] @@ h : h \in batches.inserted }
      metrics == MetricsQuery(withHoldings, snapshot.id)
      percent == PercentColumn(totalGainLossPercent(metrics))
  IN IF prepared.status # 0
     THEN [ status |-> prepared.status, snapshots |-> snapshots,
            holdings |-> holdings, portfolioMetrics |-> portfolioMetrics ]
     ELSE IF ~batches.ok \/ percent = None
     THEN [ status |-> 500, snapshots |-> snapshots \cup {snapshot},
            holdings |-> withHoldings, portfolioMetrics |-> portfolioMetrics ]
     ELSE [ status |-> 200, snapshots |-> snapshots \cup {snapshot},
            holdings |-> withHoldings,
            portfolioMetrics |-> portfolioMetrics \cup
              { [ snapshotId |-> metrics.snapshotId,
                  totalMarketValue |-> metrics.totalMarketValue,
                  totalBookValue |-> metrics.totalBookValue,
                  totalGainLoss |-> metrics.totalGainLoss,
                  totalGainLossPercent |-> Val(percent),
                  holdingsCount |-> metrics.holdingsCount,
                  accountsCount |-> metrics.accountsCount ] } ]

Import(user, source, snapshotDateStr, file) ==
  /\ Idle
  /\ nextSnapshotId <= MaxSnapshots
  /\ RowsInserted < MaxRows
  /\ LET outcome == ImportOutcome(user, source, snapshotDateStr,
                                  PreparedFiles[source][file])
     IN /\ snapshots' = outcome.snapshots
        /\ holdings' = outcome.holdings
        /\ portfolioMetrics' = outcome.portfolioMetrics
        /\ nextSnapshotId' = IF outcome.snapshots = snapshots THEN nextSnapshotId
                             ELSE nextSnapshotId + 1
  /\ UNCHANGED <<externalAccounts, externalAccountEntries, nextAccountId,
                 nextEntryId, now, response, page, result>>

\* ------------------------------------------ DELETE /api/snapshots/[id]
\* references(() => snapshots.id, { onDelete: "cascade" }): the rows left
\* in a referencing table, and what is left without the cascade
OnDeleteNoAction(rows, snapshotId) == rows
OnDeleteCascade(rows, snapshotId) == { r \in rows : r.snapshotId # snapshotId }

DeleteSnapshot(user, snapshotId) ==
  /\ Idle
  /\ \E s \in snapshots : s.id = snapshotId /\ s.userId = user
  /\ snapshots' = { s \in snapshots : s.id # snapshotId }
  /\ holdings' = OnDeleteCascade(holdings, snapshotId)
  /\ portfolioMetrics' = OnDeleteCascade(portfolioMetrics, snapshotId)
  /\ UNCHANGED <<externalAccounts, externalAccountEntries, nextSnapshotId,
                 nextAccountId, nextEntryId, now, response, page, result>>

\* recorded_at DEFAULT now(): the insert happens at some tick t not before
\* the clock, and the clock moves past it
InsertEntryOverwriting(accountId, value, note, t) ==
  /\ nextEntryId <= MaxEntries
  /\ t \in now .. MaxTime
  /\ externalAccountEntries' =
       { e \in externalAccountEntries : e.accountId # accountId } \cup
       { [ id |-> nextEntryId, accountId |-> accountId, value |-> value,
           note |-> note, recordedAt |-> t ] }
  /\ nextEntryId' = nextEntryId + 1
  /\ now' = t + 1
InsertEntry(accountId, value, note, t) ==
  /\ nextEntryId <= MaxEntries
  /\ t \in now .. MaxTime
  /\ externalAccountEntries' = externalAccountEntries \cup
       { [ id |-> nextEntryId, accountId |-> accountId, value |-> value,
           note |-> note, recordedAt |-> t ] }
  /\ nextEntryId' = nextEntryId + 1
  /\ now' = t + 1

\* ------------------------------------------ POST /api/external-accounts
CreateAccount(user, accountType, initialValue, t) ==
  /\ Idle
  /\ nextAccountId <= MaxAccounts
  /\ RowsInserted < MaxRows
  /\ externalAccounts' = externalAccounts \cup
       { [ id |-> nextAccountId, userId |-> user, accountType |-> accountType,
           isActive |-> 1 ] }
  /\ nextAccountId' = nextAccountId + 1
  /\ IF IsSome(initialValue)
     THEN /\ RowsInserted + 1 < MaxRows
          /\ InsertEntry(nextAccountId, Val(initialValue),
                         Some("Initial balance"), t)
     ELSE /\ t = now
          /\ UNCHANGED <<externalAccountEntries, nextEntryId, now>>
  /\ UNCHANGED <<snapshots, holdings, portfolioMetrics, nextSnapshotId,
                 response, page, result>>

\* ------------------------------------- POST /api/external-accounts/[id]
AddEntry(user, accountId, value, note, t) ==
  /\ Idle
  /\ \E a \in externalAccounts : a.id = accountId /\ a.userId = user
  /\ RowsInserted < MaxRows
  /\ InsertEntry(accountId, value, note, t)
  /\ UNCHANGED <<snapshots, holdings, portfolioMetrics, externalAccounts,
                 nextSnapshotId, nextAccountId, response, page, result>>

\* ----------------------------------- DELETE /api/external-accounts/[id]
DeleteAccount(user, accountId) ==
  /\ Idle
  /\ \E a \in externalAccounts : a.id = accountId /\ a.userId = user
  /\ externalAccounts' = { a \in externalAccounts : a.id # accountId }
  /\ externalAccountEntries' =
       { e \in externalAccountEntries : e.accountId # accountId }
  /\ UNCHANGED <<snapshots, holdings, portfolioMetrics, nextSnapshotId,
                 nextAccountId, nextEntryId, now, response, page, result>>

\* ============================================ GET /api/analytics/growth
\* a.accountType || ""
OrEmpty(t) == IF t = NULL THEN "" ELSE t

\* DEBT_TYPES.includes(a.accountType || "")
IsDebtAccount(a) == OrEmpty(a.accountType) \in DEBT_TYPES

\* snapshots INNER JOIN portfolio_metrics WHERE user (AND source)
GrowthRowsOn(snapshotRows, metricsRows, user, source) ==
  { [ id |-> s.id, source |-> s.source, snapshotDate |-> s.snapshotDate,
      totalMarketValue |-> m.totalMarketValue,
      totalBookValue |-> m.totalBookValue,
      totalGainLoss |-> m.totalGainLoss,
      holdingsCount |-> m.holdingsCount ] :
    <<s, m>> \in { sm \in snapshotRows \X metricsRows :
                     /\ sm[1].id = sm[2].snapshotId
                     /\ sm[1].userId = user
                     /\ (IsSome(source) => sm[1].source = Val(source)) } }

GrowthRows(user, source) ==
  GrowthRowsOn(snapshots, portfolioMetrics, user, source)

BySnapshotDate(a, b) == a.snapshotDate <= b.snapshotDate

\* ... ORDER BY snapshot_date: any order of the rows that is ascending by
\* snapshotDate; rows of equal snapshotDate come in an order the query does
\* not determine
GrowthQueryResults(user, source) ==
  Orderings(GrowthRows(user, source), BySnapshotDate)

\* SELECT ... FROM external_account_entries ORDER BY recorded_at DESC
RECURSIVE OrderByRecordedAtDesc(_)
OrderByRecordedAtDesc(S) ==
  IF S = {} THEN <<>>
  ELSE LET e == CHOOSE x \in S : \A y \in S : y.recordedAt <= x.recordedAt
       IN <<e>> \o OrderByRecordedAtDesc(S \ {e})

\* the guard `accountEntries.length > 0`
HasRowsUnguarded(arr) == TRUE
HasRows(arr) == Len(arr) > 0

\* accountEntries[0].value raises a TypeError when the array is empty
ReadThrows(arr) == HasRows(arr) /\ Len(arr) = 0

\* parseFloat(accountEntries[0].value)
FirstValue(arr) == arr[1].value

\* the filter of getExternalAssetsAtDate
AccountEntriesAtOrAfter(assetEntries, accountId, targetDate, isLatest) ==
  SelectSeq(assetEntries,
            LAMBDA e : /\ e.accountId = accountId
                       /\ (isLatest \/ e.recordedAt >= targetDate))
AccountEntriesAtAnyDate(assetEntries, accountId, targetDate, isLatest) ==
  SelectSeq(assetEntries, LAMBDA e : e.accountId = accountId)
AccountEntriesAt(assetEntries, accountId, targetDate, isLatest) ==
  SelectSeq(assetEntries,
            LAMBDA e : /\ e.accountId = accountId
                       /\ (isLatest \/ e.recordedAt <= targetDate))

getExternalAssetsAtDate(assetAccountIds, assetEntries, targetDate, isLatest) ==
  LET contribution ==
        [ accountId \in assetAccountIds |->
            LET accountEntries ==
                  AccountEntriesAt(assetEntries, accountId, targetDate, isLatest)
            IN IF HasRows(accountEntries) THEN FirstValue(accountEntries) ELSE 0 ]
  IN SumFun(contribution, assetAccountIds)

getCurrentExternalAssets(assetAccountIds, assetEntries) ==
  LET contribution ==
        [ accountId \in assetAccountIds |->
            LET accountEntries ==
                  SelectSeq(assetEntries, LAMBDA e : e.accountId = accountId)
            IN IF HasRows(accountEntries) THEN FirstValue(accountEntries) ELSE 0 ]
  IN SumFun(contribution, assetAccountIds)

\* prevPoint ? parseFloat(prevPoint.totalMarketValue || "0") : currentValue
PrevValueFromZero(growthData, index, currentValue) ==
  IF index > 1 THEN growthData[index - 1].totalMarketValue ELSE 0
PrevValue(growthData, index, currentValue) ==
  IF index > 1 THEN growthData[index - 1].totalMarketValue ELSE currentValue

\* a quotient of two numbers times 100, kept as the pair it is computed
\* from; den = 0 stands for a division by zero
NoChangePercent == [ num |-> 0, den |-> 1 ]
PercentOf(change, base) == [ num |-> change * 100, den |-> base ]

\* prevValue > 0 ? (periodChange / prevValue) * 100 : 0
PercentGuardNonNegative(prevValue) == prevValue >= 0
PercentGuard(prevValue) == prevValue > 0
periodChangePercentOf(periodChange, prevValue) ==
  IF PercentGuard(prevValue) THEN PercentOf(periodChange, prevValue)
  ELSE NoChangePercent

\* index === growthData.length - 1
EveryPointLatest(index, length) == TRUE
IsLatestPoint(index, length) == index = length

\* growthData.map(...): the snapshot-based series
SnapshotDataPoints(growthData, assetAccountIds, assetEntries) ==
  LET currentExternalAssets ==
        getCurrentExternalAssets(assetAccountIds, assetEntries)
  IN [ index \in 1 .. Len(growthData) |->
       LET point == growthData[index]
           isLatest == IsLatestPoint(index, Len(growthData))
           currentValue == point.totalMarketValue
           prevValue == PrevValue(growthData, index, currentValue)
           periodChange == currentValue - prevValue
           externalAssets ==
             IF isLatest THEN currentExternalAssets
             ELSE getExternalAssetsAtDate(assetAccountIds, assetEntries,
                                          point.snapshotDate, FALSE)
       IN [ date |-> point.snapshotDate,
            totalValue |-> currentValue,
            bookValue |-> point.totalBookValue,
            gainLoss |-> point.totalGainLoss,
            externalAssets |-> externalAssets,
            externalDebt |-> None,
            combinedValue |-> currentValue + externalAssets,
            periodChange |-> periodChange,
            periodChangePercent |->
              periodChangePercentOf(periodChange, prevValue),
            holdingsCount |-> point.holdingsCount ] ]

\* entries of one account up to entryDate, most recent first
AccountEntriesAnyDate(entries, accountId, entryDate) ==
  SortByDesc(SelectSeq(entries, LAMBDA e : e.accountId = accountId),
             LAMBDA e : e.recordedAt)
AccountEntriesUpTo(entries, accountId, entryDate) ==
  SortByDesc(SelectSeq(entries,
                       LAMBDA e : e.accountId = accountId /\ e.recordedAt <= entryDate),
             LAMBDA e : e.recordedAt)

\* total assets and total debt as of entryDate
TotalsAt(assetAccountIds, debtAccountIds, assetEntries, debtEntries, entryDate) ==
  LET asset == [ accountId \in assetAccountIds |->
                   LET accountEntries ==
                         AccountEntriesUpTo(assetEntries, accountId, entryDate)
                   IN IF HasRows(accountEntries) THEN FirstValue(accountEntries)
                      ELSE 0 ]
      debt == [ accountId \in debtAccountIds |->
                   LET accountEntries ==
                         AccountEntriesUpTo(debtEntries, accountId, entryDate)
                   IN IF HasRows(accountEntries)
                      THEN Abs(FirstValue(accountEntries)) ELSE 0 ]
  IN [ assets |-> SumFun(asset, assetAccountIds),
       debt |-> SumFun(debt, debtAccountIds) ]

\* dateMap.set(dateStr, totals) for each entry of sortedEntries in turn
RECURSIVE FoldDateMap(_, _, _)
FoldDateMap(sortedEntries, ctx, dateMap) ==
  IF sortedEntries = <<>> THEN dateMap
  ELSE LET entry == Head(sortedEntries)
           dateStr == ISODate(entry.recordedAt)
           totals == TotalsAt(ctx.assetAccountIds, ctx.debtAccountIds,
                              ctx.assetEntries, ctx.debtEntries, entry.recordedAt)
       IN FoldDateMap(Tail(sortedEntries), ctx,
                      [ k \in DOMAIN dateMap \cup {dateStr} |->
                          IF k = dateStr THEN totals ELSE dateMap[k] ])

\* the elements of a finite set of integers in ascending order
RECURSIVE Ascending(_)
Ascending(S) ==
  IF S = {} THEN <<>>
  ELSE LET m == CHOOSE x \in S : \A y \in S : x <= y
       IN <<m>> \o Ascending(S \ {m})

\* the series built from external account entries only
ExternalDataPoints(assetAccountIds, debtAccountIds, assetEntries, debtEntries) ==
  LET allExternalEntries == assetEntries \o debtEntries
      sortedEntries == SortByAsc(allExternalEntries, LAMBDA e : e.recordedAt)
      ctx == [ assetAccountIds |-> assetAccountIds,
               debtAccountIds |-> debtAccountIds,
               assetEntries |-> assetEntries, debtEntries |-> debtEntries ]
      dateMap == FoldDateMap(sortedEntries, ctx, <<>>)
      sortedDates == Ascending(DOMAIN dateMap)
  IN [ index \in 1 .. Len(sortedDates) |->
       LET values == dateMap[sortedDates[index]]
           netWorth == values.assets - values.debt
           prevValues == IF index > 1 THEN dateMap[sortedDates[index - 1]]
                         ELSE values
           prevNetWorth == prevValues.assets - prevValues.debt
           periodChange == netWorth - prevNetWorth
       IN [ date |-> ParseDateString(sortedDates[index]),
            totalValue |-> 0,
            bookValue |-> 0,
            gainLoss |-> 0,
            externalAssets |-> values.assets,
            externalDebt |-> Some(values.debt),
            combinedValue |-> netWorth,
            periodChange |-> periodChange,
            periodChangePercent |->
              IF prevNetWorth # 0
              THEN PercentOf(periodChange, Abs(prevNetWorth))
              ELSE NoChangePercent,
            holdingsCount |-> 0 ] ]

\* some guarded read of the handler hits an empty array
GrowthThrows(growthData, assetAccountIds, debtAccountIds, assetEntries, debtEntries) ==
  \/ \E accountId \in assetAccountIds :
       ReadThrows(SelectSeq(assetEntries, LAMBDA e : e.accountId = accountId))
  \/ \E index \in 1 .. Len(growthData) - 1 : \E accountId \in assetAccountIds :
       ReadThrows(AccountEntriesAt(assetEntries, accountId,
                                   growthData[index].snapshotDate, FALSE))
  \/ /\ growthData = <<>>
     /\ \E entry \in Range(assetEntries \o debtEntries) :
          \/ \E accountId \in assetAccountIds :
               ReadThrows(AccountEntriesUpTo(assetEntries, accountId, entry.recordedAt))
          \/ \E accountId \in debtAccountIds :
               ReadThrows(AccountEntriesUpTo(debtEntries, accountId, entry.recordedAt))

\* where(eq(externalAccounts.userId, user.id)), and the query without it
AccountsOfAnyUser(accounts, user) == accounts
AccountsOfUser(accounts, user) == { a \in accounts : a.userId = user }

\* the handler, given the tables of accounts and entries it reads and the
\* rows its snapshot query returned
GrowthHandlerOn(accounts, entries, user, source, growthData) ==
  LET extAccounts == AccountsOfUser(accounts, user)
      assetAccountIds == { a.id : a \in { x \in extAccounts : ~IsDebtAccount(x) } }
      debtAccountIds == { a.id : a \in { x \in extAccounts : IsDebtAccount(x) } }
      allEntries == OrderByRecordedAtDesc(entries)
      assetEntries == SelectSeq(allEntries, LAMBDA e : e.accountId \in assetAccountIds)
      debtEntries == SelectSeq(allEntries, LAMBDA e : e.accountId \in debtAccountIds)
  IN IF GrowthThrows(growthData, assetAccountIds, debtAccountIds,
                     assetEntries, debtEntries)
     THEN [ status |-> 500, user |-> Some(user), source |-> source,
            dataPoints |-> <<>> ]
     ELSE IF Len(growthData) > 0
     THEN [ status |-> 200, user |-> Some(user), source |-> source,
            dataPoints |-> SnapshotDataPoints(growthData, assetAccountIds,
                                              assetEntries) ]
     ELSE IF Len(assetEntries \o debtEntries) > 0
     THEN [ status |-> 200, user |-> Some(user), source |-> source,
            dataPoints |-> ExternalDataPoints(assetAccountIds, debtAccountIds,
                                              assetEntries, debtEntries) ]
     ELSE [ status |-> 200, user |-> Some(user), source |-> source,
            dataPoints |-> <<>> ]

GrowthHandler(user, source, growthData) ==
  GrowthHandlerOn(externalAccounts, externalAccountEntries, user, source,
                  growthData)

GrowthGET(user, source) ==
  /\ Idle
  /\ \E growthData \in GrowthQueryResults(user, source) :
       response' = GrowthHandler(user, source, growthData)
  /\ UNCHANGED <<dbVars, page, result>>

\* ===================================================== the charts page
\* GET /api/snapshots: the user's snapshots, ORDER BY snapshot_date DESC
BySnapshotDateDesc(a, b) == a.snapshotDate >= b.snapshotDate

SnapshotsQueryResults(user) ==
  Orderings({ s \in snapshots : s.userId = user }, BySnapshotDateDesc)

\* Array.from(new Set(list)): first occurrences, in order
RECURSIVE Dedupe(_)
Dedupe(s) ==
  IF s = <<>> THEN <<>>
  ELSE LET init == Dedupe(SubSeq(s, 1, Len(s) - 1))
           last == s[Len(s)]
       IN IF last \in Range(init) THEN init ELSE Append(init, last)

\* GET /api/external-accounts: active accounts with their latest value
ExternalAccountsGET(user) ==
  { [ id |-> a.id, accountType |-> a.accountType,
      latestValue |->
        LET mine == { e \in externalAccountEntries : e.accountId = a.id }
        IN IF mine = {} THEN None
           ELSE Some((CHOOSE e \in mine :
                        \A o \in mine : o.recordedAt <= e.recordedAt).value) ] :
    a \in { x \in externalAccounts : x.userId = user /\ x.isActive = 1 } }

\* fetchAllData: the list of sources from /api/snapshots, the external
\* accounts, then the growth series of each source; a growth fetch that is
\* not ok counts as an empty series, a failed snapshots fetch sets the error
DataIfOk(ok, res) == IF ok /\ res.status = 200 THEN res.dataPoints ELSE <<>>
ChartsPageLoad(user) ==
  /\ Idle
  /\ \E snapshotsOk \in BOOLEAN :
       IF ~snapshotsOk
       THEN page' = [ loaded |-> TRUE, user |-> Some(user),
                      error |-> Some("Failed to fetch snapshots"),
                      sourceAnalytics |-> <<>>, externalAccounts |-> {} ]
       ELSE \E list \in SnapshotsQueryResults(user) :
            LET sources == Dedupe([ i \in 1 .. Len(list) |-> list[i].source ])
            IN \E notOk \in SUBSET Range(sources) :
               \E rj \in GrowthQueryResults(user, Some("raymond_james")) :
               \E ws \in GrowthQueryResults(user, Some("wealthsimple")) :
               LET growthRes(source) ==
                     GrowthHandler(user, Some(source),
                                   IF source = "raymond_james" THEN rj ELSE ws)
                   growthData(source) ==
                     DataIfOk(source \notin notOk, growthRes(source))
               IN page' = [ loaded |-> TRUE, user |-> Some(user), error |-> None,
                            sourceAnalytics |->
                              [ i \in 1 .. Len(sources) |->
                                  [ source |-> sources[i],
                                    growthData |-> growthData(sources[i]) ] ],
                            externalAccounts |-> ExternalAccountsGET(user) ]
  /\ UNCHANGED <<dbVars, response, result>>

\* external account totals of the page
externalAssetsTotal(accounts) ==
  LET assets == { a \in accounts : ~IsDebtAccount(a) }
  IN SumFun([ a \in assets |-> OrZero(a.latestValue) ], assets)

externalDebtTotal(accounts) ==
  LET debts == { a \in accounts : IsDebtAccount(a) }
  IN SumFun([ a \in debts |-> Abs(OrZero(a.latestValue)) ], debts)

\* ------------------------------------------- the merger (render of the page)
hasSource(sourceAnalytics, name) ==
  \E i \in 1 .. Len(sourceAnalytics) :
    sourceAnalytics[i].source = name /\ Len(sourceAnalytics[i].growthData) > 0

\* point.date.split('T')[0]
dateKey(point) == ISODate(point.date)

\* (existing.slot || 0) + point.totalValue
AddIntoReplacing(slot, v) == Some(v)
AddInto(slot, v) == Some(OrZero(slot) + v)

\* first pass, one point: add into the entry of its date or create it
CollectPoint(growthByDate, source, point) ==
  LET k == dateKey(point) IN
  IF k \in Range(growthByDate.keys)
  THEN LET existing == growthByDate.at[k]
           updated ==
             [ existing EXCEPT
                 !.rjValue = IF source = "raymond_james"
                             THEN AddInto(existing.rjValue, point.totalValue)
                             ELSE @,
                 !.wsValue = IF source = "wealthsimple"
                             THEN AddInto(existing.wsValue, point.totalValue)
                             ELSE @,
                 !.bookValue = @ + point.bookValue,
                 !.gainLoss = @ + point.gainLoss,
                 !.externalAssets = IF point.externalAssets # 0
                                    THEN Some(point.externalAssets) ELSE @ ]
       IN [ growthByDate EXCEPT !.at[k] = updated ]
  ELSE LET fresh ==
             [ date |-> point.date,
               rjValue |-> IF source = "raymond_james"
                           THEN Some(point.totalValue) ELSE None,
               wsValue |-> IF source = "wealthsimple"
                           THEN Some(point.totalValue) ELSE None,
               totalPortfolioValue |-> 0,
               bookValue |-> point.bookValue,
               gainLoss |-> point.gainLoss,
               externalAssets |-> Some(point.externalAssets),
               combinedValue |-> 0 ]
       IN [ keys |-> Append(growthByDate.keys, k),
            at |-> [ d \in DOMAIN growthByDate.at \cup {k} |->
                       IF d = k THEN fresh ELSE growthByDate.at[d] ] ]

RECURSIVE CollectPoints(_, _, _)
CollectPoints(growthByDate, source, points) ==
  IF points = <<>> THEN growthByDate
  ELSE CollectPoints(CollectPoint(growthByDate, source, Head(points)),
                     source, Tail(points))

RECURSIVE CollectSources(_, _)
CollectSources(growthByDate, sourceAnalytics) ==
  IF sourceAnalytics = <<>> THEN growthByDate
  ELSE CollectSources(CollectPoints(growthByDate, Head(sourceAnalytics).source,
                                    Head(sourceAnalytics).growthData),
                      Tail(sourceAnalytics))

\* the date-keyed map after the first pass (keys in insertion order)
growthByDate(sourceAnalytics) ==
  CollectSources([ keys |-> <<>>, at |-> <<>> ], sourceAnalytics)

\* Array.from(values()).sort by new Date(date).getTime()
sortedDataInsertionOrder(sourceAnalytics) ==
  LET m == growthByDate(sourceAnalytics)
  IN [ i \in 1 .. Len(m.keys) |-> m.at[m.keys[i]] ]
sortedData(sourceAnalytics) ==
  LET m == growthByDate(sourceAnalytics)
  IN SortByAsc([ i \in 1 .. Len(m.keys) |-> m.at[m.keys[i]] ],
               LAMBDA pt : pt.date)

\* if (slot !== undefined) last = slot
LastKnownNeverUpdated(slot, last) == last
LastKnown(slot, last) == IF IsSome(slot) THEN Val(slot) ELSE last

\* slot ?? last
CarriedValueDropped(slot, last) == OrZero(slot)
CarriedValue(slot, last) == Coalesce(slot, last)

\* second pass: carry forward and total
RECURSIVE CarryForward(_, _, _, _, _, _)
CarryForward(points, lastRJValue, lastWSValue, lastExternalAssets, hasRJ, hasWS) ==
  IF points = <<>> THEN <<>>
  ELSE LET point == Head(points)
           newRJ == LastKnown(point.rjValue, lastRJValue)
           newWS == LastKnown(point.wsValue, lastWSValue)
           newExt == IF IsSome(point.externalAssets) /\ Val(point.externalAssets) > 0
                     THEN Val(point.externalAssets) ELSE lastExternalAssets
           rjValue == CarriedValue(point.rjValue, newRJ)
           wsValue == CarriedValue(point.wsValue, newWS)
           extAssets == Coalesce(point.externalAssets, newExt)
           totalPortfolioValue == rjValue + wsValue
           combinedValue == totalPortfolioValue + extAssets
       IN << [ point EXCEPT
                 !.rjValue = IF hasRJ THEN Some(rjValue) ELSE None,
                 !.wsValue = IF hasWS THEN Some(wsValue) ELSE None,
                 !.totalPortfolioValue = totalPortfolioValue,
                 !.externalAssets = Some(extAssets),
                 !.combinedValue = combinedValue ] >>
          \o CarryForward(Tail(points), newRJ, newWS, newExt, hasRJ, hasWS)

combinedGrowthData(sourceAnalytics) ==
  CarryForward(sortedData(sourceAnalytics), 0, 0, 0,
               hasSource(sourceAnalytics, "raymond_james"),
               hasSource(sourceAnalytics, "wealthsimple"))

\* the client is done with the response / leaves the page
Close ==
  /\ ~Idle
  /\ response' = NoResponse
  /\ page' = NoPage
  /\ result' = NoResult
  /\ UNCHANGED dbVars

\* ------------------------------------------------------------------ Next
Next ==
  \/ \E user \in Users, source \in Sources,
        snapshotDateStr \in {None} \cup { Some(d) : d \in Days } :
       \E file \in 1 .. Len(Files[source]) :
         Import(user, source, snapshotDateStr, file)
  \/ \E user \in Users, snapshotId \in 1 .. MaxSnapshots :
       DeleteSnapshot(user, snapshotId)
  \/ \E user \in Users, accountType \in AccountTypes,
        initialValue \in {None} \cup { Some(v) : v \in InitialValues },
        t \in 0 .. MaxTime :
       CreateAccount(user, accountType, initialValue, t)
  \/ \E user \in Users, accountId \in 1 .. MaxAccounts, value \in EntryValues,
        note \in EntryNotes, t \in 0 .. MaxTime :
       AddEntry(user, accountId, value, note, t)
  \/ \E user \in Users, accountId \in 1 .. MaxAccounts :
       DeleteAccount(user, accountId)
  \/ \E user \in Users, source \in {None} \cup { Some(x) : x \in Sources } :
       GrowthGET(user, source)
  \/ \E user \in Users : ChartsPageLoad(user)
  \/ Close

Spec == Init /\ [][Next]_vars

\* ====================================================== properties
\* ------------------------------------------- notions the properties use
PageReady == page.loaded /\ ~IsSome(page.error)

\* the series the page charts
Combined == combinedGrowthData(page.sourceAnalytics)

\* every point of every per-source series the page holds, tagged with its
\* source and its position
InputPoints ==
  UNION { { [ source |-> page.sourceAnalytics[i].source, at |-> <<i, j>>,
              point |-> page.sourceAnalytics[i].growthData[j] ] :
            j \in 1 .. Len(page.sourceAnalytics[i].growthData) } :
          i \in 1 .. Len(page.sourceAnalytics) }

PointsOn(P, source, d) ==
  { x \in P : x.source = source /\ ISODate(x.point.date) = d }

\* the calendar dates on which a source has a data point
ReportedDates(P, source) ==
  { ISODate(x.point.date) : x \in { y \in P : y.source = source } }

\* the value a source reports on a date: the sum of its points of that date
ReportedOn(P, source, d) ==
  LET on == PointsOn(P, source, d)
  IN SumFun([ x \in on |-> x.point.totalValue ], on)

\* direct value, else the value of the most recent earlier report, else 0
DirectOrCarried(P, source, d) ==
  LET dates == ReportedDates(P, source) IN
  IF d \in dates THEN ReportedOn(P, source, d)
  ELSE LET earlier == { e \in dates : e < d }
       IN IF earlier = {} THEN 0
          ELSE ReportedOn(P, source, CHOOSE e \in earlier : \A o \in earlier : o <= e)

\* C1: at every point of the combined series each source's slot holds the
\* value it reports on that date (0 included) or, when it has no point on
\* that date, the value of its most recent earlier report, or 0 if none.
C1_CarryForward ==
  PageReady =>
    LET c == Combined
        P == InputPoints
    IN \A i \in 1 .. Len(c) :
         LET d == ISODate(c[i].date) IN
         /\ OrZero(c[i].rjValue) = DirectOrCarried(P, "raymond_james", d)
         /\ OrZero(c[i].wsValue) = DirectOrCarried(P, "wealthsimple", d)
         /\ (d \in ReportedDates(P, "raymond_james") =>
               c[i].rjValue = Some(ReportedOn(P, "raymond_james", d)))
         /\ (d \in ReportedDates(P, "wealthsimple") =>
               c[i].wsValue = Some(ReportedOn(P, "wealthsimple", d)))

\* a source is silent on a date after it reported a non-zero value, and
\* the other source reports 0 there
C1_Witness ==
  /\ PageReady
  /\ LET c == Combined
         P == InputPoints
     IN \E i \in 1 .. Len(c) : \E src, other \in Sources :
          LET d == ISODate(c[i].date) IN
          /\ d \notin ReportedDates(P, src)
          /\ DirectOrCarried(P, src, d) # 0
          /\ d \in ReportedDates(P, other)
          /\ ReportedOn(P, other, d) = 0

\* C2: totalPortfolioValue is the sum of the sources' direct-or-carried
\* values, and combinedValue is totalPortfolioValue plus the externalAssets
\* of the same point.
C2_Totals ==
  PageReady =>
    LET c == Combined
        P == InputPoints
    IN \A i \in 1 .. Len(c) :
         LET d == ISODate(c[i].date) IN
         /\ c[i].totalPortfolioValue =
              DirectOrCarried(P, "raymond_james", d)
                + DirectOrCarried(P, "wealthsimple", d)
         /\ IsSome(c[i].externalAssets)
         /\ c[i].combinedValue = c[i].totalPortfolioValue + Val(c[i].externalAssets)

\* both sources contribute, one of them carried, and external assets count
C2_Witness ==
  /\ PageReady
  /\ LET c == Combined
         P == InputPoints
     IN \E i \in 1 .. Len(c) :
          LET d == ISODate(c[i].date) IN
          /\ DirectOrCarried(P, "raymond_james", d) # 0
          /\ DirectOrCarried(P, "wealthsimple", d) # 0
          /\ \E src \in Sources : d \notin ReportedDates(P, src)
          /\ Val(c[i].externalAssets) # 0

\* C3: the combined series has exactly one point per calendar date on which
\* any source has a point, in strictly ascending date order.
C3_OnePointPerDateAscending ==
  PageReady =>
    LET c == Combined
        dates == { ISODate(x.point.date) : x \in InputPoints }
    IN /\ { ISODate(c[i].date) : i \in 1 .. Len(c) } = dates
       /\ Len(c) = Cardinality(dates)
       /\ \A i, j \in 1 .. Len(c) :
            i < j => ISODate(c[i].date) < ISODate(c[j].date)

\* two points of one date at different times of day, and the source
\* traversed first starts later than the one traversed second
C3_Witness ==
  /\ PageReady
  /\ Len(Combined) >= 2
  /\ \E x, y \in InputPoints :
       /\ ISODate(x.point.date) = ISODate(y.point.date)
       /\ x.point.date # y.point.date
  /\ \E x, y \in InputPoints :
       /\ x.at = <<1, 1>> /\ y.at = <<2, 1>>
       /\ ISODate(x.point.date) > ISODate(y.point.date)

\* C4: points of one calendar date are added: each source's slot is the sum
\* of its point values of that date, bookValue and gainLoss are the sums
\* over all points of that date.
C4_SameDateAddition ==
  PageReady =>
    LET c == Combined
        P == InputPoints
    IN \A i \in 1 .. Len(c) :
         LET d == ISODate(c[i].date)
             on == { x \in P : ISODate(x.point.date) = d }
         IN /\ \A src \in Sources :
                 d \in ReportedDates(P, src) =>
                   (IF src = "raymond_james" THEN c[i].rjValue ELSE c[i].wsValue)
                     = Some(ReportedOn(P, src, d))
            /\ c[i].bookValue = SumFun([ x \in on |-> x.point.bookValue ], on)
            /\ c[i].gainLoss = SumFun([ x \in on |-> x.point.gainLoss ], on)

\* one source has two non-zero points on one date and the other source
\* has a point there too
C4_Witness ==
  /\ PageReady
  /\ LET P == InputPoints
     IN \E x, y \in P :
          /\ x.source = y.source /\ x.at # y.at
          /\ ISODate(x.point.date) = ISODate(y.point.date)
          /\ x.point.totalValue # 0 /\ y.point.totalValue # 0
          /\ x.point.bookValue # 0 /\ y.point.bookValue # 0
          /\ \E z \in P : z.source # x.source
                          /\ ISODate(z.point.date) = ISODate(x.point.date)

\* ------------------------------------------------ ledger reference notions
Liabilities == {"Mortgage", "Loan", "Credit Card"}

AssetAccountsOf(user) ==
  { a \in externalAccounts : a.userId = user /\ a.accountType \notin Liabilities }

DebtAccountsOf(user) ==
  { a \in externalAccounts : a.userId = user /\ a.accountType \in Liabilities }

EntriesOfUser(user) ==
  { e \in externalAccountEntries :
      \E a \in externalAccounts : a.userId = user /\ a.id = e.accountId }

\* the entries of an account recorded at or before t
KnownBy(a, t) ==
  { e \in externalAccountEntries : e.accountId = a.id /\ e.recordedAt <= t }

\* the value of the account's entry with the greatest recordedAt among those
\* recorded at or before t; an account without such an entry adds nothing
ValueAsOf(a, t) ==
  LET known == KnownBy(a, t)
  IN IF known = {} THEN 0
     ELSE (CHOOSE e \in known : \A o \in known : o.recordedAt <= e.recordedAt).value

EndOfTime == MaxTime + 1

AssetsAsOf(user, t) ==
  LET A == AssetAccountsOf(user) IN SumFun([ a \in A |-> ValueAsOf(a, t) ], A)

DebtAsOf(user, t) ==
  LET D == DebtAccountsOf(user) IN SumFun([ a \in D |-> ValueAsOf(a, t) ], D)

DebtMagnitudeAsOf(user, t) ==
  LET D == DebtAccountsOf(user) IN SumFun([ a \in D |-> Abs(ValueAsOf(a, t)) ], D)

\* the response in hand is a snapshot-based series / an entries-only series
SnapshotBased ==
  /\ response.status = 200
  /\ GrowthRows(Val(response.user), response.source) # {}

EntriesOnly ==
  /\ response.status = 200
  /\ GrowthRows(Val(response.user), response.source) = {}
  /\ EntriesOfUser(Val(response.user)) # {}

\* C5: in the snapshot-based series every point but the last carries the sum
\* of each asset account's latest entry recorded at or before the point's
\* snapshot date, and the last point the sum of each asset account's latest
\* entry whatever its date.
C5_ExternalAssetsAsOf ==
  SnapshotBased =>
    LET dp == response.dataPoints
        user == Val(response.user)
    IN \A i \in 1 .. Len(dp) :
         dp[i].externalAssets =
           IF i < Len(dp) THEN AssetsAsOf(user, dp[i].date)
           ELSE AssetsAsOf(user, EndOfTime)

\* an entry recorded after the last snapshot date: the earlier point leaves
\* it out and the last point counts it
C5_Witness ==
  /\ SnapshotBased
  /\ LET dp == response.dataPoints
         user == Val(response.user)
     IN /\ Len(dp) >= 2
        /\ dp[1].externalAssets = 0
        /\ dp[Len(dp)].externalAssets # 0
        /\ \E e \in EntriesOfUser(user) : e.recordedAt > dp[Len(dp)].date

\* the ticks of the calendar date of timestamp t
TicksOfDay(t) == (ISODate(t) * TicksPerDay) .. (ISODate(t) * TicksPerDay + TicksPerDay - 1)

\* C6: in the combined series only the last point reflects live external
\* balances; every earlier point's externalAssets is made only of entries
\* recorded by that point's date (some instant of its calendar date).
C6_OnlyLastPointLive ==
  PageReady =>
    LET c == Combined
        user == Val(page.user)
    IN \A i \in 1 .. Len(c) - 1 :
         \E t \in TicksOfDay(c[i].date) :
           Val(c[i].externalAssets) = AssetsAsOf(user, t)

\* the recording time of the last entry the user recorded on calendar date d
LastEntryTimeOn(user, d) ==
  LET times == { e.recordedAt : e \in { x \in EntriesOfUser(user) :
                                          ISODate(x.recordedAt) = d } }
  IN CHOOSE t \in times : \A o \in times : o <= t

\* the entries-only series: one point per calendar date with an entry, in
\* ascending order, totals as of the last entry of the date, debt given by
\* debtOf, net worth = assets - debt, periodChange against the previous point
EntriesOnlySeries(debtOf(_, _)) ==
  EntriesOnly =>
    LET dp == response.dataPoints
        user == Val(response.user)
        dates == { ISODate(e.recordedAt) : e \in EntriesOfUser(user) }
    IN /\ Len(dp) = Cardinality(dates)
       /\ { ISODate(dp[i].date) : i \in 1 .. Len(dp) } = dates
       /\ \A i \in 1 .. Len(dp) :
            LET d == ISODate(dp[i].date)
                T == LastEntryTimeOn(user, d)
            IN /\ dp[i].date = ParseDateString(d)
               /\ dp[i].externalAssets = AssetsAsOf(user, T)
               /\ dp[i].externalDebt = Some(debtOf(user, T))
               /\ dp[i].combinedValue = dp[i].externalAssets - Val(dp[i].externalDebt)
               /\ i > 1 => /\ ISODate(dp[i - 1].date) < d
                           /\ dp[i].periodChange =
                                dp[i].combinedValue - dp[i - 1].combinedValue

\* C7 as stated: externalDebt is the sum of the debt accounts' most recent
\* entry values.
C7_EntriesOnlySeries_AsStated == EntriesOnlySeries(DebtAsOf)

\* C7 (amended): without snapshots the endpoint returns one point per
\* calendar date with an entry, ascending; externalAssets is the sum of the
\* asset accounts' most recent entries as of the last entry of that date,
\* externalDebt the sum of the magnitudes of the debt accounts' most recent
\* entries, combinedValue their difference, periodChange the change of
\* combinedValue from the previous point.
C7_EntriesOnlySeries == EntriesOnlySeries(DebtMagnitudeAsOf)

\* two dates, one of them with two entries, and a change between the points
C7_Witness ==
  /\ EntriesOnly
  /\ Len(response.dataPoints) >= 2
  /\ response.dataPoints[2].periodChange # 0
  /\ \E e, f \in EntriesOfUser(Val(response.user)) :
       e # f /\ ISODate(e.recordedAt) = ISODate(f.recordedAt)

C9_EntriesOnlyFallback ==
  (/\ PageReady
   /\ { s \in snapshots : s.userId = Val(page.user) } = {}
   /\ EntriesOfUser(Val(page.user)) # {})
  => /\ Combined # <<>>
     /\ Len(Combined) =
          Cardinality({ ISODate(e.recordedAt) : e \in EntriesOfUser(Val(page.user)) })

\* C10: the endpoint answers every request with success and the merger
\* yields a series for every input, empty or partial ones included; with no
\* snapshots and no entries both give the empty series.
C10_Total ==
  /\ response.status # 0 =>
       /\ response.status = 200
       /\ (/\ GrowthRows(Val(response.user), response.source) = {}
           /\ EntriesOfUser(Val(response.user)) = {})
          => response.dataPoints = <<>>
  /\ page.loaded =>
       /\ Len(Combined) = Cardinality({ ISODate(x.point.date) : x \in InputPoints })
       /\ (/\ { s \in snapshots : s.userId = Val(page.user) } = {}
           /\ EntriesOfUser(Val(page.user)) = {})
          => Combined = <<>>

\* a request served while an asset account has no entry at all and a
\* snapshot precedes the last one
C10_Witness ==
  /\ response.status = 200
  /\ Len(response.dataPoints) >= 2
  /\ \E a \in AssetAccountsOf(Val(response.user)) : KnownBy(a, EndOfTime) = {}

\* the page merges a source whose series is empty with one that has points
C10_WitnessPage ==
  /\ PageReady
  /\ \E i, j \in 1 .. Len(page.sourceAnalytics) :
       /\ page.sourceAnalytics[i].growthData = <<>>
       /\ page.sourceAnalytics[j].growthData # <<>>
  /\ Combined # <<>>

\* C11: when the series has exactly one data point to show (one snapshot
\* row, or no snapshot and entries on a single calendar date), the endpoint
\* answers with success, one point, and periodChange 0.
C11_SinglePoint ==
  response.status # 0 =>
    LET user == Val(response.user)
        rows == GrowthRows(user, response.source)
        dates == { ISODate(e.recordedAt) : e \in EntriesOfUser(user) }
    IN (\/ Cardinality(rows) = 1
        \/ rows = {} /\ Cardinality(dates) = 1)
       => /\ response.status = 200
          /\ Len(response.dataPoints) = 1
          /\ response.dataPoints[1].periodChange = 0

\* a single snapshot of non-zero value
C11_Witness ==
  /\ SnapshotBased
  /\ Len(response.dataPoints) = 1
  /\ response.dataPoints[1].totalValue # 0
  /\ response.dataPoints[1].periodChange = 0

\* ================================== the ledger lookup applied on its own
\* the most recent entry of the account among those the filter keeps
MostRecentEntry(assetEntries, accountId, targetDate, isLatest) ==
  LET accountEntries == AccountEntriesAt(assetEntries, accountId, targetDate, isLatest)
  IN IF HasRows(accountEntries) THEN Some(accountEntries[1]) ELSE None

\* entries of account `accountId` recorded at the ticks of T
EntriesAtTimes(accountId, T) ==
  { [ id |-> accountId * (MaxTime + 1) + t, accountId |-> accountId,
      value |-> 100 + t, recordedAt |-> t ] : t \in T }

\* an entry set of two accounts and two dates d1 < d2
InitLedger ==
  /\ snapshots = {} /\ holdings = {} /\ portfolioMetrics = {}
  /\ externalAccounts = {} /\ externalAccountEntries = {}
  /\ nextSnapshotId = 1 /\ nextAccountId = 1 /\ nextEntryId = 1
  /\ now = TicksPerDay - 1
  /\ response = NoResponse
  /\ page = NoPage
  /\ \E T \in SUBSET (0 .. MaxTime), U \in SUBSET (0 .. MaxTime),
        d1 \in 0 .. MaxTime, d2 \in 0 .. MaxTime + 1 :
       /\ d1 < d2
       /\ result = [ op |-> "valueAsOf",
                     assetEntries |-> OrderByRecordedAtDesc(
                                        EntriesAtTimes(1, T) \cup EntriesAtTimes(2, U)),
                     d1 |-> d1, d2 |-> d2, chosen |-> None ]

\* the lookup for account 1 at d1 and at d2
LedgerLookup ==
  /\ result.op = "valueAsOf"
  /\ result.chosen = None
  /\ result' = [ result EXCEPT !.chosen =
                   Some(<< MostRecentEntry(result.assetEntries, 1, result.d1, FALSE),
                           MostRecentEntry(result.assetEntries, 1, result.d2, FALSE) >>) ]
  /\ UNCHANGED <<dbVars, response, page>>

SpecLedger == InitLedger /\ [][LedgerLookup]_vars

LedgerLookedUp == result.op = "valueAsOf" /\ IsSome(result.chosen)

\* C12: the lookup without future entries is monotonic in the date: if an
\* entry is chosen for d1 then one is chosen for d2 > d1, recorded no earlier.
C12_LookupMonotonic ==
  LedgerLookedUp =>
    LET c1 == Val(result.chosen)[1]
        c2 == Val(result.chosen)[2]
    IN IsSome(c1) => /\ IsSome(c2)
                     /\ Val(c1).recordedAt <= Val(c2).recordedAt

\* the later date picks a later entry than the earlier date
C12_Witness ==
  /\ LedgerLookedUp
  /\ IsSome(Val(result.chosen)[1])
  /\ IsSome(Val(result.chosen)[2])
  /\ Val(Val(result.chosen)[1]).recordedAt < Val(Val(result.chosen)[2]).recordedAt

\* ========================================= an import of any small file
ClientIds == { <<"C1">>, <<"C2">> }
AccountNumbers == { <<"A1">>, <<"A2">> }
Labels == { <<>>, <<"TFSA">> }
FooterLabels == { <<"A", "s", " ", "o", "f", " ", "1">> }
MarketValues == { <<"7">>, <<"1", ",", "0", "0", "0">>, <<>>, <<"-">>,
                  <<"a", "b", "c">> }
BookValues == { <<"6">>, <<"0", ".", "0", "1">>, <<"(", "6", ")">>, <<>> }

\* the rows a file of the source may hold
RawRows(source) ==
  IF source = "raymond_james"
  THEN { RJRow(clientId, accountNumber, label, marketValue, bookValue, <<"1">>) :
           clientId \in ClientIds, accountNumber \in AccountNumbers,
           label \in Labels, marketValue \in MarketValues,
           bookValue \in BookValues }
  ELSE { WSRow(accountNumber, label, <<>>, marketValue, bookValue, <<"1">>) :
           accountNumber \in AccountNumbers, label \in Labels \cup FooterLabels,
           marketValue \in MarketValues, bookValue \in BookValues }

\* a file of one or two rows, about to be uploaded
InitImport ==
  /\ snapshots = {} /\ holdings = {} /\ portfolioMetrics = {}
  /\ externalAccounts = {} /\ externalAccountEntries = {}
  /\ nextSnapshotId = 1 /\ nextAccountId = 1 /\ nextEntryId = 1
  /\ now = TicksPerDay - 1
  /\ response = NoResponse
  /\ page = NoPage
  /\ \E source \in Sources :
       \E rows \in { <<r>> : r \in RawRows(source) } \cup
                   { <<r1, r2>> : r1 \in RawRows(source), r2 \in RawRows(source) } :
         result = [ op |-> "import", source |-> source, rows |-> rows,
                    out |-> None, status |-> 0 ]

\* the rows normalized one by one
TransformDrawn ==
  /\ result.op = "import"
  /\ result.out = None
  /\ result' = [ result EXCEPT !.out =
       Some([ i \in 1 .. Len(result.rows) |->
                IF result.source = "raymond_james"
                THEN transformCsvRow(result.rows[i])
                ELSE transformWealthsimpleCsvRow(result.rows[i]) ]) ]
  /\ UNCHANGED <<dbVars, response, page>>

\* the file uploaded
ImportDrawn ==
  /\ result.op = "import"
  /\ IsSome(result.out)
  /\ result.status = 0
  /\ \E user \in Users :
       LET outcome == ImportOutcome(user, result.source, None,
                                    Prepared(result.source, result.rows))
       IN /\ snapshots' = outcome.snapshots
          /\ holdings' = outcome.holdings
          /\ portfolioMetrics' = outcome.portfolioMetrics
          /\ nextSnapshotId' = IF outcome.snapshots = snapshots THEN nextSnapshotId
                               ELSE nextSnapshotId + 1
          /\ result' = [ result EXCEPT !.status = outcome.status ]
  /\ UNCHANGED <<externalAccounts, externalAccountEntries, nextAccountId,
                 nextEntryId, now, response, page>>

NextImport == TransformDrawn \/ ImportDrawn

SpecImport == InitImport /\ [][NextImport]_vars

\* the holdings of a snapshot by row number, and the sum of one column
HoldingsOf(snapshotId) == { h \in holdings : h.snapshotId = snapshotId }
RECURSIVE ColumnSum(_, _, _)
ColumnSum(hs, column, n) ==
  IF n = 0 THEN 0
  ELSE ColumnSum(hs, column, n - 1) +
       LET at == { h \in hs : h.row = n }
       IN IF at = {} THEN 0 ELSE OrZero((CHOOSE h \in at : TRUE)[column])

\* p is num / den (den > 0) to the nearest ten-thousandth
IsRounded(p, num, den) ==
  LET mag == IF num < 0 THEN 0 - num ELSE num
      r == mag % den
      carried == p.whole - (mag \div den)
      err == r * Pow10(4) - (p.frac + carried * Pow10(4)) * den
  IN /\ ~p.nan
     /\ carried \in {0, 1}
     /\ 2 * (IF err < 0 THEN 0 - err ELSE err) <= den
     /\ p.neg = (num < 0 /\ p.whole + p.frac > 0)

\* C13: every stored metrics row is the aggregate of its snapshot's
\* holdings: sums with nulls as 0, the number of holdings, the number of
\* distinct non-null labels, and a percentage that is 0 when the total book
\* value is not positive and (market - book) / book x 100 otherwise (to the
\* four decimals of its column), never NaN or infinite.
C13_MetricsAggregate ==
  \A m \in portfolioMetrics :
    LET hs == HoldingsOf(m.snapshotId)
        n == Cardinality(hs)
        zero == [ nan |-> FALSE, neg |-> FALSE, whole |-> 0, frac |-> 0 ]
    IN /\ m.totalMarketValue = ColumnSum(hs, "marketValue", MaxRows)
       /\ m.totalBookValue = ColumnSum(hs, "bookValue", MaxRows)
       /\ m.totalGainLoss = ColumnSum(hs, "gainLoss", MaxRows)
       /\ m.holdingsCount = n
       /\ m.accountsCount =
            Cardinality({ h.accountNickname : h \in hs } \ {None})
       /\ IF m.totalBookValue <= 0 THEN m.totalGainLossPercent = zero
          ELSE IsRounded(m.totalGainLossPercent,
                         (m.totalMarketValue - m.totalBookValue) * 100,
                         m.totalBookValue)

\* two holdings stored with market value and a total book value of 0
C13_Witness ==
  /\ result.op = "import"
  /\ \E m \in portfolioMetrics :
       /\ m.totalBookValue = 0
       /\ m.totalMarketValue > 0
       /\ m.holdingsCount = 2

\* C14: an import is all-or-nothing: when the request is over, either the
\* snapshot, all its holdings and its metrics row are stored, or nothing of
\* the import is stored.
C14_AllOrNothing ==
  result.op = "import" =>
    /\ result.status \notin {0, 200} => snapshots = {} /\ holdings = {}
    /\ \A s \in snapshots :
         /\ Cardinality(HoldingsOf(s.id)) = s.recordCount
         /\ Cardinality({ m \in portfolioMetrics : m.snapshotId = s.id }) = 1

\* a required numeric column holds text that is neither a number nor one of
\* the two spellings of "no value"
IsNumberText(text) ==
  LET cleaned == Cleaned(text)
      body == IF Len(cleaned) > 0 /\ cleaned[1] = "-" THEN Tail(cleaned) ELSE cleaned
  IN /\ \E i \in 1 .. Len(body) : IsDigit(body[i])
     /\ \A i \in 1 .. Len(body) : IsDigit(body[i]) \/ body[i] = "."
     /\ Cardinality({ i \in 1 .. Len(body) : body[i] = "." }) <= 1
Malformed(row) ==
  LET text == row["Market Value"]
  IN text # <<>> /\ text # <<"-">> /\ ~IsNumberText(text)

\* C15: a row whose Market Value cannot be parsed as a number makes the
\* normalization fail and the whole import is rejected; only an empty text
\* or a lone "-" is taken as "no value" without an error.
C15_MalformedRowRejected ==
  result.op = "import" =>
    \A i \in 1 .. Len(result.rows) :
      Malformed(result.rows[i]) =>
        /\ result.out = None
        /\ result.status # 200
        /\ snapshots = {}

\* the columns that identify a client or an account
IdColumns == { "Client Id", "Account Number" }
SameButIds(row1, row2) ==
  /\ DOMAIN row1 = DOMAIN row2
  /\ \A column \in DOMAIN row1 \ IdColumns : row1[column] = row2[column]
TextFields == { "clientName", "accountNickname", "symbol", "holding" }
IdTexts(row) == { row[column] : column \in IdColumns \cap DOMAIN row }
WithoutRow(holding) ==
  [ field \in DOMAIN holding \ {"row", "snapshotId"} |-> holding[field] ]

\* C17: a normalized holding does not depend on the Client Id and Account
\* Number columns: rows that differ only there give the same record, and
\* the records and the stored holdings carry neither field nor their text.
C17_IdsIgnored ==
  result.op = "import" =>
    /\ IsSome(result.out) =>
         LET out == Val(result.out)
         IN \A i \in 1 .. Len(result.rows) :
              /\ DOMAIN out[i] \cap {"clientId", "accountNumber"} = {}
              /\ \A field \in TextFields \cap DOMAIN out[i] :
                   ~IsSome(out[i][field]) \/ Val(out[i][field]) \notin IdTexts(result.rows[i])
              /\ \A j \in 1 .. Len(result.rows) :
                   SameButIds(result.rows[i], result.rows[j]) => out[i] = out[j]
    /\ LET rows == DataRows(result.source, result.rows)
       IN \A h \in holdings :
            /\ h.clientId = None /\ h.accountNumber = None
            /\ \A field \in TextFields :
                 ~IsSome(h[field]) \/ Val(h[field]) \notin IdTexts(rows[h.row])
            /\ \A g \in holdings :
                 SameButIds(rows[h.row], rows[g.row]) =>
                   WithoutRow(h) = WithoutRow(g)

\* two rows that differ in both columns and in nothing else, stored
C17_Witness ==
  /\ result.op = "import"
  /\ result.status = 200
  /\ Len(result.rows) = 2
  /\ SameButIds(result.rows[1], result.rows[2])
  /\ result.rows[1]["Account Number"] # result.rows[2]["Account Number"]
  /\ "Client Id" \in DOMAIN result.rows[1]
  /\ result.rows[1]["Client Id"] # result.rows[2]["Client Id"]
  /\ Cardinality(holdings) = 2

\* ================================== normalizing a numeric text, twice
Prefixes == { <<>>, <<"$">>, <<"-">>, <<"(">>, <<" ">> }
ShortIntegerParts == { <<>>, <<"0">>, <<"7">>, <<"1", "2">> }
IntegerParts == ShortIntegerParts \cup { <<"1", ",", "2", "3", "4">> }
FractionParts ==
  { <<>>, <<".">>, <<".", "5">>, <<".", "0", "5">>, <<".", "0", "0", "5">>,
    <<".", "1", "2", "5">>, <<".", "4", "9", "9", "9">> }
LongFractionParts ==
  { <<".", "0", "0", "0", "0", "0", "0", "5">>,
    <<".", "9", "9", "9", "9", "9", "9", "5">> }
\* the numerals: those with seven decimals have at most two integer digits
Numerals ==
  { integer \o fraction : integer \in IntegerParts, fraction \in FractionParts }
  \cup { integer \o fraction :
           integer \in ShortIntegerParts, fraction \in LongFractionParts }
Suffixes == { <<>>, <<")">>, <<" ">>, <<"a">> }
Precisions == {2, 4, 6}

InitNormalize ==
  /\ snapshots = {} /\ holdings = {} /\ portfolioMetrics = {}
  /\ externalAccounts = {} /\ externalAccountEntries = {}
  /\ nextSnapshotId = 1 /\ nextAccountId = 1 /\ nextEntryId = 1
  /\ now = TicksPerDay - 1
  /\ response = NoResponse
  /\ page = NoPage
  /\ \E prefix \in Prefixes, numeral \in Numerals, suffix \in Suffixes,
        decimals \in Precisions :
       result = [ op |-> "normalize", stage |-> "drawn",
                  text |-> prefix \o numeral \o suffix,
                  decimals |-> decimals, value |-> None, again |-> None ]

\* parseCurrency applied to the text
NormalizeDrawn ==
  /\ result.op = "normalize"
  /\ result.stage = "drawn"
  /\ result' = [ result EXCEPT
       !.stage = "normalized",
       !.value = parseCurrency(Some(result.text), result.decimals) ]
  /\ UNCHANGED <<dbVars, response, page>>

\* parseCurrency applied to the decimal text of a normalized value
NormalizeAgain ==
  /\ result.op = "normalize"
  /\ result.stage = "normalized"
  /\ IsSome(result.value)
  /\ result' = [ result EXCEPT
       !.stage = "renormalized",
       !.again = parseCurrency(
                   Some(NumberToString(Val(result.value), result.decimals)),
                   result.decimals) ]
  /\ UNCHANGED <<dbVars, response, page>>

NextNormalize == NormalizeDrawn \/ NormalizeAgain

SpecNormalize == InitNormalize /\ [][NextNormalize]_vars

TwoUsers == {"u1", "u2"}
RequestIds == 1 .. 2

\* a response: its status and what its body says
Answer(status, body) == [ status |-> status, body |-> body ]

\* findFirst(where id = .. and userId = ..)
OwnedById(table, user, id) == { r \in table : r.id = id /\ r.userId = user }
\* findFirst(where id = ..)
ById(table, id) == { r \in table : r.id = id }

\* GET and DELETE /api/snapshots/[id]
SnapshotGETAnswer(table, user, id) ==
  IF OwnedById(table, user, id) = {}
  THEN Answer(404, "error: Snapshot not found") ELSE Answer(200, "snapshot")
SnapshotDELETEAnswer(table, user, id) ==
  IF OwnedById(table, user, id) = {}
  THEN Answer(404, "error: Snapshot not found") ELSE Answer(200, "success")

\* GET, POST and DELETE /api/external-accounts/[id]
AccountGETAnswer(table, user, id) ==
  IF OwnedById(table, user, id) = {}
  THEN Answer(404, "error: Account not found") ELSE Answer(200, "account")
AccountPOSTAnswer(table, user, id) ==
  IF OwnedById(table, user, id) = {}
  THEN Answer(404, "error: Account not found") ELSE Answer(200, "entry")
AccountDELETEAnswer(table, user, id) ==
  IF OwnedById(table, user, id) = {}
  THEN Answer(404, "error: Account not found") ELSE Answer(200, "success")

\* GET /api/analytics?snapshotId= and GET /api/holdings?snapshotId=
AnalyticsGETAnswer(table, user, id) ==
  IF ById(table, id) = {} THEN Answer(200, "summary: null")
  ELSE IF (CHOOSE s \in ById(table, id) : TRUE).userId # user
  THEN Answer(401, "error: Unauthorized") ELSE Answer(200, "summary")
HoldingsGETAnswer(table, user, id) ==
  IF ById(table, id) = {} THEN Answer(200, "holdings: []")
  ELSE IF (CHOOSE s \in ById(table, id) : TRUE).userId # user
  THEN Answer(401, "error: Unauthorized") ELSE Answer(200, "holdings")

Requested(endpoint, user, id, answer) ==
  result' = [ op |-> "request", endpoint |-> endpoint, user |-> user,
              id |-> id, answer |-> answer ]

SnapshotGET(user, id) ==
  /\ Idle
  /\ Requested("GET snapshot", user, id, SnapshotGETAnswer(snapshots, user, id))
  /\ UNCHANGED <<dbVars, response, page>>

SnapshotDELETE(user, id) ==
  /\ Idle
  /\ Requested("DELETE snapshot", user, id,
               SnapshotDELETEAnswer(snapshots, user, id))
  /\ IF OwnedById(snapshots, user, id) = {}
     THEN UNCHANGED <<snapshots, holdings, portfolioMetrics>>
     ELSE /\ snapshots' = { s \in snapshots : s.id # id }
          /\ holdings' = OnDeleteCascade(holdings, id)
          /\ portfolioMetrics' = OnDeleteCascade(portfolioMetrics, id)
  /\ UNCHANGED <<externalAccounts, externalAccountEntries, nextSnapshotId,
                 nextAccountId, nextEntryId, now, response, page>>

AccountGET(user, id) ==
  /\ Idle
  /\ Requested("GET account", user, id,
               AccountGETAnswer(externalAccounts, user, id))
  /\ UNCHANGED <<dbVars, response, page>>

AccountPOST(user, id, value) ==
  /\ Idle
  /\ Requested("POST account", user, id,
               AccountPOSTAnswer(externalAccounts, user, id))
  /\ IF OwnedById(externalAccounts, user, id) = {}
     THEN UNCHANGED <<externalAccountEntries, nextEntryId, now>>
     ELSE /\ RowsInserted < MaxRows
          /\ InsertEntry(id, value, None, now)
  /\ UNCHANGED <<snapshots, holdings, portfolioMetrics, externalAccounts,
                 nextSnapshotId, nextAccountId, response, page>>

AccountDELETE(user, id) ==
  /\ Idle
  /\ Requested("DELETE account", user, id,
               AccountDELETEAnswer(externalAccounts, user, id))
  /\ IF OwnedById(externalAccounts, user, id) = {}
     THEN UNCHANGED <<externalAccounts, externalAccountEntries>>
     ELSE /\ externalAccounts' = { a \in externalAccounts : a.id # id }
          /\ externalAccountEntries' =
               { e \in externalAccountEntries : e.accountId # id }
  /\ UNCHANGED <<snapshots, holdings, portfolioMetrics, nextSnapshotId,
                 nextAccountId, nextEntryId, now, response, page>>

AnalyticsGET(user, id) ==
  /\ Idle
  /\ Requested("GET analytics", user, id, AnalyticsGETAnswer(snapshots, user, id))
  /\ UNCHANGED <<dbVars, response, page>>

HoldingsGET(user, id) ==
  /\ Idle
  /\ Requested("GET holdings", user, id, HoldingsGETAnswer(snapshots, user, id))
  /\ UNCHANGED <<dbVars, response, page>>

NextAccess ==
  \/ \E user \in TwoUsers : Import(user, "raymond_james", None, 1)
  \/ \E user \in TwoUsers : CreateAccount(user, NULL, Some(100), now)
  \/ \E user \in TwoUsers, id \in RequestIds : SnapshotGET(user, id)
  \/ \E user \in TwoUsers, id \in RequestIds : SnapshotDELETE(user, id)
  \/ \E user \in TwoUsers, id \in RequestIds : AccountGET(user, id)
  \/ \E user \in TwoUsers, id \in RequestIds, value \in EntryValues :
       AccountPOST(user, id, value)
  \/ \E user \in TwoUsers, id \in RequestIds : AccountDELETE(user, id)
  \/ \E user \in TwoUsers, id \in RequestIds : AnalyticsGET(user, id)
  \/ \E user \in TwoUsers, id \in RequestIds : HoldingsGET(user, id)
  \/ \E user \in TwoUsers : GrowthGET(user, None)
  \/ Close

SpecAccess == Init /\ [][NextAccess]_vars

\* the answer of the endpoint for an id no row has
AnswerWhenAbsent(endpoint, user, id) ==
  CASE endpoint = "GET snapshot" -> SnapshotGETAnswer({}, user, id)
    [] endpoint = "DELETE snapshot" -> SnapshotDELETEAnswer({}, user, id)
    [] endpoint = "GET account" -> AccountGETAnswer({}, user, id)
    [] endpoint = "POST account" -> AccountPOSTAnswer({}, user, id)
    [] endpoint = "DELETE account" -> AccountDELETEAnswer({}, user, id)
    [] endpoint = "GET analytics" -> AnalyticsGETAnswer({}, user, id)
    [] endpoint = "GET holdings" -> HoldingsGETAnswer({}, user, id)

\* the table the endpoint's id is looked up in
TableOf(endpoint) ==
  IF endpoint \in {"GET account", "POST account", "DELETE account"}
  THEN externalAccounts ELSE snapshots

\* C18: a request for an id that belongs to another user is answered
\* exactly as a request for an id that does not exist, at every endpoint
\* that takes a snapshot id or an external-account id.
C18_ForeignAsAbsent ==
  result.op = "request" =>
    ((\E r \in TableOf(result.endpoint) :
        r.id = result.id /\ r.userId # result.user)
     => result.answer = AnswerWhenAbsent(result.endpoint, result.user, result.id))

\* ================================================ the ledger over time
\* a step keeps every entry as it is, unless the entry's account is deleted
EntriesKept ==
  \A e \in externalAccountEntries :
    \/ e \in externalAccountEntries'
    \/ /\ \A o \in externalAccountEntries' : o.id # e.id
       /\ \E a \in externalAccounts : a.id = e.accountId
       /\ \A a \in externalAccounts' : a.id # e.accountId

\* an "update value" request adds exactly one entry, with a new id
UpdateInserts ==
  (\E user \in Users, accountId \in 1 .. MaxAccounts, value \in EntryValues,
      note \in EntryNotes, t \in 0 .. MaxTime :
     AddEntry(user, accountId, value, note, t))
  => /\ externalAccountEntries \subseteq externalAccountEntries'
     /\ \E e \in externalAccountEntries' \ externalAccountEntries :
          /\ externalAccountEntries' = externalAccountEntries \cup {e}
          /\ \A o \in externalAccountEntries : o.id # e.id

\* the value the accounts list reports is that of the latest entry
ReportsLatest ==
  page.loaded =>
    \A x \in page.externalAccounts :
      LET mine == { e \in externalAccountEntries : e.accountId = x.id }
      IN IF mine = {} THEN x.latestValue = None
         ELSE \E e \in mine :
                /\ x.latestValue = Some(e.value)
                /\ \A o \in mine : o.recordedAt <= e.recordedAt

\* C19: the ledger is append-only: no entry's value, note or recordedAt
\* ever changes, an entry disappears only when its account is deleted,
\* every update of a value inserts a new entry, and the current value an
\* account reports is the value of its entry with the greatest recordedAt.
C19_AppendOnly ==
  /\ [][EntriesKept /\ UpdateInserts]_vars
  /\ []ReportsLatest

\* an account with two entries, a later one added by an update, is listed
\* with the later value
C19_Witness ==
  /\ page.loaded
  /\ \E x \in page.externalAccounts :
       \E e1 \in externalAccountEntries, e2 \in externalAccountEntries :
         /\ e1.accountId = x.id /\ e2.accountId = x.id
         /\ e1.note = Some("Initial balance") /\ e2.note = None
         /\ e1.recordedAt < e2.recordedAt
         /\ e1.value # e2.value
         /\ x.latestValue = Some(e2.value)

\* ======================================= the chart's time-range filter
TIME_RANGES ==
  [ r \in {"3M", "6M", "1Y", "3Y", "5Y", "ALL"} |->
      CASE r = "3M" -> 3 [] r = "6M" -> 6 [] r = "1Y" -> 12
        [] r = "3Y" -> 36 [] r = "5Y" -> 60 [] r = "ALL" -> 0 ]

\* the calendar: months are 0 .. 11 as in Date, days are counted from
\* 1 January 2015
IsLeap(year) == (year % 4 = 0 /\ year % 100 # 0) \/ year % 400 = 0
DaysInMonth(year, month) ==
  IF month = 1 THEN (IF IsLeap(year) THEN 29 ELSE 28)
  ELSE IF month \in {3, 5, 8, 10} THEN 30 ELSE 31
RECURSIVE DaysBeforeMonth(_, _)
DaysBeforeMonth(year, month) ==
  IF month = 0 THEN 0
  ELSE DaysBeforeMonth(year, month - 1) + DaysInMonth(year, month - 1)
RECURSIVE DaysBeforeYear(_)
DaysBeforeYear(year) ==
  IF year <= 2015 THEN 0
  ELSE DaysBeforeYear(year - 1) + DaysBeforeMonth(year - 1, 12)
\* MakeDay: a day of the month past the month's end runs into the next month
MakeDay(year, month, date) ==
  DaysBeforeYear(year) + DaysBeforeMonth(year, month) + date - 1
\* the time value of a date, the time of day kept
TimeValue(dt) == MakeDay(dt.year, dt.month, dt.date) * TicksPerDay + dt.tick
\* Date.prototype.setMonth(month) with any integer month
setMonth(dt, month) ==
  TimeValue([ dt EXCEPT !.year = dt.year + (month \div 12), !.month = month % 12 ])

\* point.date >= cutoffDate, and the comparison without the equality
IsAfter(date, cutoffDate) == date > cutoffDate
IsAtOrAfter(date, cutoffDate) == date >= cutoffDate

\* filteredData
filteredData(data, selectedRange, today) ==
  IF selectedRange = "ALL" THEN data
  ELSE IF selectedRange \notin DOMAIN TIME_RANGES \/ TIME_RANGES[selectedRange] = 0
  THEN data
  ELSE LET cutoffDate == setMonth(today, today.month - TIME_RANGES[selectedRange])
       IN SelectSeq(data, LAMBDA point : IsAtOrAfter(point.date, cutoffDate))

\* the moments the chart is looked at
Todays ==
  { [ year |-> d[1], month |-> d[2], date |-> d[3], tick |-> tick ] :
      d \in { <<2024, 4, 31>>, <<2024, 2, 15>>, <<2025, 2, 31>>, <<2025, 0, 31>>,
              <<2024, 11, 1>>, <<2024, 1, 29>> },
      tick \in 0 .. TicksPerDay - 1 }

\* the month `months` months before, found one month at a time
RECURSIVE MonthsBack(_, _, _)
MonthsBack(year, month, months) ==
  IF months = 0 THEN [ year |-> year, month |-> month ]
  ELSE IF month = 0 THEN MonthsBack(year - 1, 11, months - 1)
  ELSE MonthsBack(year, month - 1, months - 1)
\* now minus a number of months: the same day and time of day in that month
MonthsBefore(today, months) ==
  LET back == MonthsBack(today.year, today.month, months)
  IN MakeDay(back.year, back.month, today.date) * TicksPerDay + today.tick

\* the series drawn: ascending dates around the range's start, one point
\* per date, each with its own value
DatesAround(today, selectedRange) ==
  LET months == IF selectedRange = "ALL" THEN 12 ELSE TIME_RANGES[selectedRange]
      start == MonthsBefore(today, months)
  IN { start - TicksPerDay, start - 1, start, start + 1, start + TicksPerDay,
       TimeValue(today) }
SeriesOf(dates) ==
  LET order == CHOOSE s \in [ 1 .. Cardinality(dates) -> dates ] :
                 \A i, j \in DOMAIN s : i < j => s[i] < s[j]
  IN [ i \in 1 .. Cardinality(dates) |->
         [ date |-> order[i], totalValue |-> 100 * i ] ]

InitChart ==
  /\ snapshots = {} /\ holdings = {} /\ portfolioMetrics = {}
  /\ externalAccounts = {} /\ externalAccountEntries = {}
  /\ nextSnapshotId = 1 /\ nextAccountId = 1 /\ nextEntryId = 1
  /\ now = TicksPerDay - 1
  /\ response = NoResponse
  /\ page = NoPage
  /\ \E today \in Todays, selectedRange \in DOMAIN TIME_RANGES :
       \E dates \in { D \in SUBSET DatesAround(today, selectedRange) :
                        Cardinality(D) <= 3 } :
         result = [ op |-> "filter", today |-> today,
                    selectedRange |-> selectedRange, data |-> SeriesOf(dates),
                    filtered |-> None ]

\* the chart renders
SelectRange ==
  /\ result.op = "filter"
  /\ result.filtered = None
  /\ result' = [ result EXCEPT !.filtered =
       Some(filteredData(result.data, result.selectedRange, result.today)) ]
  /\ UNCHANGED <<dbVars, response, page>>

SpecChart == InitChart /\ [][SelectRange]_vars

\* C20: for 3M, 6M, 1Y, 3Y and 5Y the filter returns exactly the points
\* dated at or after now minus 3, 6, 12, 36 and 60 months, in their
\* original order and unchanged; for ALL it returns the series unchanged.
C20_RangeFilter ==
  (result.op = "filter" /\ IsSome(result.filtered)) =>
    LET out == Val(result.filtered)
        months == CASE result.selectedRange = "3M" -> 3
                    [] result.selectedRange = "6M" -> 6
                    [] result.selectedRange = "1Y" -> 12
                    [] result.selectedRange = "3Y" -> 36
                    [] result.selectedRange = "5Y" -> 60
                    [] OTHER -> 0
        start == MonthsBefore(result.today, months)
        kept == { i \in 1 .. Len(result.data) : result.data[i].date >= start }
    IN IF result.selectedRange = "ALL" THEN out = result.data
       ELSE /\ Len(out) = Cardinality(kept)
            /\ \A j \in 1 .. Len(out) :
                 \E i \in kept :
                   /\ Cardinality({ k \in kept : k <= i }) = j
                   /\ out[j] = result.data[i]

\* three months back from the 31st: a point exactly at the start of the
\* range is kept, the one a tick earlier is dropped
C20_Witness ==
  /\ result.op = "filter"
  /\ IsSome(result.filtered)
  /\ result.selectedRange = "3M"
  /\ result.today.date = 31
  /\ Len(result.data) = 3
  /\ Len(Val(result.filtered)) = 2
  /\ Val(result.filtered)[1].date = MonthsBefore(result.today, 3)
  /\ result.data[1].date = MonthsBefore(result.today, 3) - 1

\* ============================================== deleting a snapshot
\* every holdings and metrics row references a stored snapshot
NoOrphanRows ==
  /\ \A h \in holdings : \E s \in snapshots : s.id = h.snapshotId
  /\ \A m \in portfolioMetrics : \E s \in snapshots : s.id = m.snapshotId

\* what a DELETE /api/snapshots/[id] request does to the three tables
SnapshotDeleteStep ==
  (result = NoResult /\ result'.op = "request"
   /\ result'.endpoint = "DELETE snapshot")
  => LET mine == { s \in snapshots :
                     s.id = result'.id /\ s.userId = result'.user }
     IN IF mine # {}
        THEN /\ result'.answer.status = 200
             /\ snapshots' = snapshots \ mine
             /\ holdings' = holdings \ { h \in holdings : h.snapshotId = result'.id }
             /\ portfolioMetrics' =
                  portfolioMetrics \
                    { m \in portfolioMetrics : m.snapshotId = result'.id }
        ELSE /\ result'.answer.status = 404
             /\ UNCHANGED dbVars

\* C21: a snapshot deleted by its owner goes with every holdings and
\* metrics row that references it, no row is left without its snapshot,
\* and the other snapshots, holdings and metrics stay as they are; a delete
\* of an id that does not exist or is another user's answers not-found and
\* changes nothing.
C21_DeleteCascades ==
  /\ [][SnapshotDeleteStep]_vars
  /\ []NoOrphanRows

\* the owner has deleted one of two stored snapshots, the other user's
\* snapshot and its rows are still there
C21_Witness ==
  /\ result.op = "request"
  /\ result.endpoint = "DELETE snapshot"
  /\ result.answer.status = 200
  /\ \A s \in snapshots : s.id # result.id
  /\ \E s \in snapshots :
       /\ s.userId # result.user
       /\ \E h \in holdings : h.snapshotId = s.id
       /\ \E m \in portfolioMetrics : m.snapshotId = s.id

\* ===================================== the growth series of each user
\* what the user owns: snapshots, their metrics, accounts, their entries
OwnData(user) ==
  LET mySnapshots == { s \in snapshots : s.userId = user }
      myAccounts == { a \in externalAccounts : a.userId = user }
  IN [ snapshots |-> mySnapshots,
       portfolioMetrics |->
         { m \in portfolioMetrics : \E s \in mySnapshots : s.id = m.snapshotId },
       externalAccounts |-> myAccounts,
       externalAccountEntries |->
         { e \in externalAccountEntries : \E a \in myAccounts : a.id = e.accountId } ]

\* the answers GET /api/analytics/growth can give the user when the
\* tables hold db
GrowthAnswersOn(db, user, source) ==
  { GrowthHandlerOn(db.externalAccounts, db.externalAccountEntries, user,
                    source, growthData) :
      growthData \in Orderings(GrowthRowsOn(db.snapshots, db.portfolioMetrics,
                                            user, source), BySnapshotDate) }

Database ==
  [ snapshots |-> snapshots, portfolioMetrics |-> portfolioMetrics,
    externalAccounts |-> externalAccounts,
    externalAccountEntries |-> externalAccountEntries ]

\* C22: the growth series of a user depends only on the user's own
\* snapshots, metrics, accounts and entries: whatever the other users have
\* created, changed or deleted, the answers are those the user's own data
\* alone give.
C22_GrowthIsolated ==
  \A user \in TwoUsers, source \in {None} \cup { Some(x) : x \in Sources } :
    GrowthAnswersOn(Database, user, source) =
      GrowthAnswersOn(OwnData(user), user, source)

\* a user is answered a series with external assets while the other user
\* holds a snapshot or an account with an entry
C22_Witness ==
  /\ response.status = 200
  /\ Len(response.dataPoints) > 0
  /\ response.dataPoints[1].externalAssets > 0
  /\ \E other \in TwoUsers :
       /\ Some(other) # response.user
       /\ \/ OwnData(other).snapshots # {}
          \/ OwnData(other).externalAccountEntries # {}

\* ================================ combined net worth of the charted series
\* C23: at every point of the combined series, the combined value is the
\* point's total portfolio value plus its external assets minus the external
\* debt as of the point's date.
C23_CombinedNetWorth ==
  PageReady =>
    LET series == Combined
    IN \A i \in 1 .. Len(series) :
         series[i].combinedValue =
           series[i].totalPortfolioValue + Val(series[i].externalAssets)
             - DebtMagnitudeAsOf(Val(page.user), series[i].date)

\* ============================= the period changes of a series on their own
\* total market values of the rows the snapshot query returns
TotalMarketValues == {-500, 0, 700, 1200}

GrowthRow(i, v) ==
  [ id |-> i, source |-> "raymond_james", snapshotDate |-> i - 1,
    totalMarketValue |-> v, totalBookValue |-> 0, totalGainLoss |-> 0,
    holdingsCount |-> 1 ]

\* up to MaxSnapshots rows in ascending date order, of any values
InitPeriod ==
  /\ snapshots = {} /\ holdings = {} /\ portfolioMetrics = {}
  /\ externalAccounts = {} /\ externalAccountEntries = {}
  /\ nextSnapshotId = 1 /\ nextAccountId = 1 /\ nextEntryId = 1
  /\ now = TicksPerDay - 1
  /\ response = NoResponse
  /\ page = NoPage
  /\ \E n \in 1 .. MaxSnapshots : \E values \in [ 1 .. n -> TotalMarketValues ] :
       result = [ op |-> "periodChange",
                  growthData |-> [ i \in 1 .. n |-> GrowthRow(i, values[i]) ],
                  dataPoints |-> None ]

\* growthData.map applied to the rows
MapDrawn ==
  /\ result.op = "periodChange"
  /\ ~IsSome(result.dataPoints)
  /\ result' = [ result EXCEPT
       !.dataPoints = Some(SnapshotDataPoints(result.growthData, {}, <<>>)) ]
  /\ UNCHANGED <<dbVars, response, page>>

SpecPeriod == InitPeriod /\ [][MapDrawn]_vars

\* periodChange is the value minus the previous point's value, the first
\* point's previous value being first(value); the percentage is 0 when the
\* previous value is not positive, else the change over the previous value
PeriodChanges(first(_)) ==
  (result.op = "periodChange" /\ IsSome(result.dataPoints)) =>
    LET dp == Val(result.dataPoints)
    IN \A i \in 1 .. Len(dp) :
         LET prev == IF i > 1 THEN dp[i - 1].totalValue
                     ELSE first(dp[i].totalValue)
         IN /\ dp[i].periodChange = dp[i].totalValue - prev
            /\ prev <= 0 => dp[i].periodChangePercent = NoChangePercent
            /\ prev > 0 => dp[i].periodChangePercent =
                             PercentOf(dp[i].periodChange, prev)

\* C24 as stated: the previous value of the first point is zero.
C24_PeriodChange_AsStated == PeriodChanges(LAMBDA v : 0)

\* C24 (amended): in the snapshot-based series each point's periodChange
\* is its portfolio value minus the previous point's portfolio value, the
\* first point being compared with itself (periodChange 0), and
\* periodChangePercent is 0 whenever the previous value is <= 0.
C24_PeriodChange == PeriodChanges(LAMBDA v : v)

\* three points: the first has a value, one follows a negative value and
\* one a positive value, both with a change
C24_Witness ==
  /\ result.op = "periodChange"
  /\ IsSome(result.dataPoints)
  /\ LET dp == Val(result.dataPoints)
     IN /\ Len(dp) = 3
        /\ dp[1].totalValue > 0
        /\ \E i \in 2 .. 3 : dp[i - 1].totalValue < 0 /\ dp[i].periodChange # 0
        /\ \E i \in 2 .. 3 : dp[i - 1].totalValue > 0 /\ dp[i].periodChange # 0

\* ================================== the import handler statement by statement
\* the rows of a small file: with or without a label (or a footer label),
\* with or without a market value
StepRows(source) ==
  IF source = "raymond_james"
  THEN { RJRow(<<"C1">>, <<"A1">>, label, marketValue, <<"6">>, <<"1">>) :
           label \in Labels, marketValue \in { <<"7">>, <<>> } }
  ELSE { WSRow(<<"A1">>, label, <<>>, marketValue, <<"6">>, <<"1">>) :
           label \in Labels \cup FooterLabels, marketValue \in { <<"7">>, <<>> } }

\* the parsed rows of a file whose header lacks column c
WithoutColumn(rows, c) ==
  [ i \in 1 .. Len(rows) |-> [ k \in DOMAIN rows[i] \ {c} |-> rows[i][k] ] ]

\* a parsed file of up to two rows, with or without the Market Value column;
\* the handler is about to look at the rows
InitImportSteps ==
  /\ snapshots = {} /\ holdings = {} /\ portfolioMetrics = {}
  /\ externalAccounts = {} /\ externalAccountEntries = {}
  /\ nextSnapshotId = 1 /\ nextAccountId = 1 /\ nextEntryId = 1
  /\ now = TicksPerDay - 1
  /\ response = NoResponse
  /\ page = NoPage
  /\ \E source \in Sources, complete \in BOOLEAN :
       \E rows \in { <<>> } \cup { <<r>> : r \in StepRows(source) } \cup
                   { <<r1, r2>> : r1 \in StepRows(source), r2 \in StepRows(source) } :
         result = [ op |-> "importSteps", pc |-> "checkColumns",
                    user |-> "u1", source |-> source,
                    parsedRows |-> IF complete THEN rows
                                   ELSE WithoutColumn(rows, "Market Value"),
                    rows |-> <<>>, snapshotId |-> None,
                    holdingsData |-> <<>>, status |-> 0 ]

AtStep(pc) == result.op = "importSteps" /\ result.pc = pc

\* rows.length === 0, the required columns, the footer filter
CheckColumns ==
  /\ AtStep("checkColumns")
  /\ result' =
       IF Len(result.parsedRows) = 0
       THEN [ result EXCEPT !.pc = "responded", !.status = 400 ]
       ELSE IF ~(requiredColumns(result.source) \subseteq DOMAIN result.parsedRows[1])
       THEN [ result EXCEPT !.pc = "responded", !.status = 400 ]
       ELSE [ result EXCEPT !.pc = "insertSnapshot",
                            !.rows = DataRows(result.source, result.parsedRows) ]
  /\ UNCHANGED <<dbVars, response, page>>

\* db.insert(snapshots).values({... recordCount: rows.length}).returning()
InsertSnapshot ==
  /\ AtStep("insertSnapshot")
  /\ snapshots' = snapshots \cup
       { [ id |-> nextSnapshotId, userId |-> result.user,
           source |-> result.source, snapshotDate |-> now,
           recordCount |-> RecordCount(result.parsedRows, result.rows) ] }
  /\ nextSnapshotId' = nextSnapshotId + 1
  /\ result' = [ result EXCEPT !.pc = "transform",
                               !.snapshotId = Some(nextSnapshotId) ]
  /\ UNCHANGED <<holdings, portfolioMetrics, externalAccounts,
                 externalAccountEntries, nextAccountId, nextEntryId, now,
                 response, page>>

\* rows.map: the next row transformed into an element of holdingsData
TransformRow ==
  /\ AtStep("transform")
  /\ LET i == Len(result.holdingsData) + 1
     IN result' =
          IF i > Len(result.rows)
          THEN [ result EXCEPT !.pc = "insertHoldings" ]
          ELSE [ result EXCEPT !.holdingsData =
                   Append(@, HoldingsRow(i, IF result.source = "raymond_james"
                                            THEN transformCsvRow(result.rows[i])
                                            ELSE transformWealthsimpleCsvRow(
                                                   result.rows[i]))) ]
  /\ UNCHANGED <<dbVars, response, page>>

\* the batch loop
InsertHoldings ==
  /\ AtStep("insertHoldings")
  /\ LET batches == InsertBatches(result.holdingsData)
     IN /\ holdings' = holdings \cup
             { [ snapshotId |-> Val(result.snapshotId) ] @@ h :
                 h \in batches.inserted }
        /\ result' = IF batches.ok THEN [ result EXCEPT !.pc = "storeMetrics" ]
                     ELSE [ result EXCEPT !.pc = "responded", !.status = 500 ]
  /\ UNCHANGED <<snapshots, portfolioMetrics, externalAccounts,
                 externalAccountEntries, nextSnapshotId, nextAccountId,
                 nextEntryId, now, response, page>>

\* the metrics query and the insert of its row
StoreMetrics ==
  /\ AtStep("storeMetrics")
  /\ LET metrics == MetricsQuery(holdings, Val(result.snapshotId))
         percent == PercentColumn(totalGainLossPercent(metrics))
     IN IF percent = None
        THEN /\ result' = [ result EXCEPT !.pc = "responded", !.status = 500 ]
             /\ UNCHANGED portfolioMetrics
        ELSE /\ portfolioMetrics' = portfolioMetrics \cup
                  { [ snapshotId |-> metrics.snapshotId,
                      totalMarketValue |-> metrics.totalMarketValue,
                      totalBookValue |-> metrics.totalBookValue,
                      totalGainLoss |-> metrics.totalGainLoss,
                      totalGainLossPercent |-> Val(percent),
                      holdingsCount |-> metrics.holdingsCount,
                      accountsCount |-> metrics.accountsCount ] }
             /\ result' = [ result EXCEPT !.pc = "responded", !.status = 200 ]
  /\ UNCHANGED <<snapshots, holdings, externalAccounts, externalAccountEntries,
                 nextSnapshotId, nextAccountId, nextEntryId, now, response, page>>

NextImportSteps ==
  \/ CheckColumns
  \/ InsertSnapshot
  \/ TransformRow
  \/ InsertHoldings
  \/ StoreMetrics

SpecImportSteps == InitImportSteps /\ [][NextImportSteps]_vars

\* C25: the header check comes before any row is made a holding, and every
\* row has been made a holding before the first write: while a snapshot row
\* is stored, holdingsData holds an element for every row.
C25_ParseBeforeWrite ==
  result.op = "importSteps" =>
    /\ result.holdingsData # <<>> => result.pc # "checkColumns"
    /\ snapshots # {} => Len(result.holdingsData) = Len(result.rows)

\* ========================================== the rounding of parseCurrency
\* C26: parseCurrency rounds once to the requested digits, a half going
\* away from zero, for negative values too: the result is the nearest
\* multiple of 10^-decimals, the one of larger magnitude at a tie.
C26_HalfAwayFromZero ==
  (result.op = "normalize" /\ result.stage # "drawn" /\ IsSome(result.value)) =>
    LET num == Val(parseFloat(Cleaned(result.text)))
    IN Val(result.value) =
         IF num.k <= result.decimals
         THEN num.m * Pow10(result.decimals - num.k)
         ELSE DivRoundHalfAway(num.m, Pow10(num.k - result.decimals))

\* ================================ snapshots of one date in the growth series
\* the rows of the snapshot query in ascending date, those of one date in
\* the order of their import (ascending id)
ByDateThenImport(a, b) ==
  \/ a.snapshotDate < b.snapshotDate
  \/ a.snapshotDate = b.snapshotDate /\ a.id <= b.id

\* C27: the growth series takes the snapshots in ascending snapshot date,
\* those of equal date in the order of their import, so that the last
\* imported of them is the last point (it gets the live balances and is the
\* previous point of the next).
C27_TiesByImportOrder ==
  SnapshotBased =>
    LET user == Val(response.user)
    IN \E growthData \in Orderings(GrowthRows(user, response.source),
                                   ByDateThenImport) :
         response = GrowthHandler(user, response.source, growthData)

\* ======================= a growth request with an entry appended meanwhile
\* the request has read nothing yet
StartGrowth(user) ==
  /\ Idle
  /\ result' = [ op |-> "growthSteps", pc |-> "readSnapshots", user |-> user,
                 growthData |-> <<>>, extAccounts |-> {}, allEntries |-> {},
                 written |-> None, writtenAt |-> "", dataPoints |-> <<>> ]
  /\ UNCHANGED <<dbVars, response, page>>

AtRead(pc) == result.op = "growthSteps" /\ result.pc = pc

\* await db.select(...).from(snapshots).innerJoin(portfolioMetrics ...)
ReadSnapshots ==
  /\ AtRead("readSnapshots")
  /\ \E growthData \in GrowthQueryResults(result.user, None) :
       result' = [ result EXCEPT !.pc = "readAccounts",
                                 !.growthData = growthData ]
  /\ UNCHANGED <<dbVars, response, page>>

\* await db.select().from(externalAccounts).where(userId)
ReadAccounts ==
  /\ AtRead("readAccounts")
  /\ result' = [ result EXCEPT
       !.pc = "readEntries",
       !.extAccounts = AccountsOfUser(externalAccounts, result.user) ]
  /\ UNCHANGED <<dbVars, response, page>>

\* await db.select(...).from(externalAccountEntries).orderBy(desc(recordedAt))
ReadEntries ==
  /\ AtRead("readEntries")
  /\ result' = [ result EXCEPT !.pc = "compute",
                               !.allEntries = externalAccountEntries ]
  /\ UNCHANGED <<dbVars, response, page>>

\* the rest of the handler, on what was read
ComputeSeries ==
  /\ AtRead("compute")
  /\ result' = [ result EXCEPT
       !.pc = "responded",
       !.dataPoints =
          GrowthHandlerOn(result.extAccounts, result.allEntries, result.user,
                          None, result.growthData).dataPoints ]
  /\ UNCHANGED <<dbVars, response, page>>

\* POST /api/external-accounts/[id] of the same user, served while the
\* growth request is between two of its steps
AppendMeanwhile(accountId, value, t) ==
  /\ result.op = "growthSteps"
  /\ result.pc # "responded"
  /\ result.written = None
  /\ \E a \in externalAccounts : a.id = accountId /\ a.userId = result.user
  /\ InsertEntry(accountId, value, None, t)
  /\ result' = [ result EXCEPT !.written = Some(nextEntryId),
                               !.writtenAt = result.pc ]
  /\ UNCHANGED <<snapshots, holdings, portfolioMetrics, externalAccounts,
                 nextSnapshotId, nextAccountId, response, page>>

NextRace ==
  \/ \E d \in Days : Import("u1", "raymond_james", Some(d), 1)
  \/ \E t \in 0 .. MaxTime : CreateAccount("u1", NULL, Some(100), t)
  \/ StartGrowth("u1")
  \/ ReadSnapshots
  \/ ReadAccounts
  \/ ReadEntries
  \/ ComputeSeries
  \/ \E accountId \in 1 .. MaxAccounts, value \in EntryValues, t \in 0 .. MaxTime :
       AppendMeanwhile(accountId, value, t)
  \/ Close

SpecRace == Init /\ [][NextRace]_vars

\* the entry appended during the request
NewEntry == CHOOSE e \in externalAccountEntries : e.id = Val(result.written)

\* the series the request would compute from its snapshot rows and accounts
\* if it read the given entries
SeriesReading(entries) ==
  GrowthHandlerOn(result.extAccounts, entries, result.user, None,
                  result.growthData).dataPoints

\* C28: an entry appended while a growth request is between any two of its
\* reads leaves the historical points alone: every point but the last whose
\* date is earlier than the entry's recordedAt has the same externalAssets
\* in the answer as it has with the entry read and without it.
C28_HistoryUnaffected ==
  (AtRead("responded") /\ IsSome(result.written)) =>
    LET with == SeriesReading(externalAccountEntries)
        without == SeriesReading(externalAccountEntries \ {NewEntry})
        dp == result.dataPoints
    IN \A i \in 1 .. Len(dp) - 1 :
         dp[i].date < NewEntry.recordedAt =>
           /\ i <= Len(with) /\ i <= Len(without)
           /\ with[i].date = dp[i].date /\ without[i].date = dp[i].date
           /\ with[i].externalAssets = without[i].externalAssets
           /\ dp[i].externalAssets = with[i].externalAssets

\* the entry came between the reads of accounts and entries, was read, and
\* changes the last point while an earlier point holds a balance
C28_Witness ==
  /\ AtRead("responded")
  /\ IsSome(result.written)
  /\ result.writtenAt = "readEntries"
  /\ NewEntry \in result.allEntries
  /\ Len(result.growthData) >= 2
  /\ result.dataPoints[1].date < NewEntry.recordedAt
  /\ result.dataPoints[1].externalAssets > 0
  /\ result.dataPoints[Len(result.dataPoints)].externalAssets #
       SeriesReading(externalAccountEntries \ {NewEntry})[
         Len(result.dataPoints)].externalAssets

\* ============================================ the three counts of an import
\* C29: a snapshot whose import succeeded (its metrics row is stored) has
\* recordCount = the number of holdings stored for it = the holdingsCount of
\* its metrics row, in every state in which the snapshot exists.
C29_CountsAgree ==
  \A s \in snapshots : \A m \in portfolioMetrics :
    m.snapshotId = s.id =>
      /\ s.recordCount = Cardinality(HoldingsOf(s.id))
      /\ m.holdingsCount = s.recordCount

\* a Wealthsimple file of two rows, one of them a footer, imported with
\* success
C29_Witness ==
  /\ result.op = "import"
  /\ result.status = 200
  /\ result.source = "wealthsimple"
  /\ Len(result.rows) = 2
  /\ \E s \in snapshots : \E m \in portfolioMetrics :
       /\ m.snapshotId = s.id
       /\ s.recordCount = 1
       /\ Cardinality(HoldingsOf(s.id)) = 1

\* ===================================== the per-source summaries of the page
\* findFirst(where userId, orderBy desc(snapshotDate)): a snapshot of the
\* greatest date, any of them when several share it
LatestSnapshots(S) ==
  { s \in S : \A o \in S : o.snapshotDate <= s.snapshotDate }

\* the summary GET /api/analytics builds from the metrics row of the target
\* snapshot, null without one
SummaryOfSnapshot(s) ==
  LET rows == { m \in portfolioMetrics : m.snapshotId = s.id }
  IN IF rows = {} THEN None
     ELSE LET metrics == CHOOSE m \in rows : TRUE
          IN Some([ totalMarketValue |-> metrics.totalMarketValue,
                    totalBookValue |-> metrics.totalBookValue,
                    totalGainLoss |-> metrics.totalGainLoss,
                    totalGainLossPercent |-> metrics.totalGainLossPercent,
                    holdingsCount |-> metrics.holdingsCount,
                    accountsCount |-> metrics.accountsCount ])

\* GET /api/analytics without snapshotId: the summaries it can answer with;
\* the request's source parameter is not read
AnalyticsSummaries(user, source) ==
  LET mine == { s \in snapshots : s.userId = user }
  IN IF mine = {} THEN {None}
     ELSE { SummaryOfSnapshot(s) : s \in LatestSnapshots(mine) }

\* s.summary?.totalMarketValue || 0
MarketValueOrZero(summary) ==
  IF IsSome(summary) THEN Val(summary).totalMarketValue ELSE 0

\* fetchAllData: the sources from /api/snapshots, then
\* /api/analytics?source= for each; a fetch that is not ok gives no summary
SummariesLoad(user) ==
  /\ Idle
  /\ \E list \in SnapshotsQueryResults(user) :
       LET sources == Dedupe([ i \in 1 .. Len(list) |-> list[i].source ])
       IN \E notOk \in SUBSET Range(sources) :
          \E rj \in AnalyticsSummaries(user, "raymond_james") :
          \E ws \in AnalyticsSummaries(user, "wealthsimple") :
            LET sourceAnalytics ==
                  [ i \in 1 .. Len(sources) |->
                      [ source |-> sources[i],
                        ok |-> sources[i] \notin notOk,
                        summary |-> IF sources[i] \in notOk THEN None
                                    ELSE IF sources[i] = "raymond_james" THEN rj
                                    ELSE ws ] ]
            IN result' =
                 [ op |-> "summaries", user |-> user,
                   sourceAnalytics |-> sourceAnalytics,
                   totalPortfolioValue |->
                     SumFun([ i \in 1 .. Len(sources) |->
                                MarketValueOrZero(sourceAnalytics[i].summary) ],
                            1 .. Len(sources)) ]
  /\ UNCHANGED <<dbVars, response, page>>

NextSummary ==
  \/ \E user \in Users, source \in Sources,
        snapshotDateStr \in {None} \cup { Some(d) : d \in Days } :
       \E file \in 1 .. Len(Files[source]) :
         Import(user, source, snapshotDateStr, file)
  \/ \E user \in Users, snapshotId \in 1 .. MaxSnapshots :
       DeleteSnapshot(user, snapshotId)
  \/ \E user \in Users : SummariesLoad(user)
  \/ Close

SpecSummary == Init /\ [][NextSummary]_vars

\* C30: every source's summary on the charts page is that of the source's
\* own most recent snapshot, and the page's total portfolio value is the sum
\* over the sources of the market value of each source's latest snapshot.
C30_SummaryPerSource ==
  (/\ result.op = "summaries"
   /\ \A i \in 1 .. Len(result.sourceAnalytics) : result.sourceAnalytics[i].ok) =>
    LET sa == result.sourceAnalytics
        latestOf(source) ==
          LatestSnapshots({ s \in snapshots : /\ s.userId = result.user
                                              /\ s.source = source })
    IN \E chosen \in [ 1 .. Len(sa) -> snapshots ] :
         /\ \A i \in 1 .. Len(sa) :
              /\ chosen[i] \in latestOf(sa[i].source)
              /\ sa[i].summary = SummaryOfSnapshot(chosen[i])
         /\ result.totalPortfolioValue =
              SumFun([ i \in 1 .. Len(sa) |->
                         MarketValueOrZero(SummaryOfSnapshot(chosen[i])) ],
                     1 .. Len(sa))

====
